---- MODULE Spec2Model ----
(***************************************************************************)
(* Model of hex_raster_processor: the tiling pipeline Tiler.make_tiles     *)
(* (tiler.py) with the helpers it calls (utils.py, image_info.py,          *)
(* contrast_stretch.py), over an explicit filesystem.                      *)
(*                                                                         *)
(* A directory is a pair <<kind, n>>; a path is <<directory, name>>; a     *)
(* file name is a sequence of tokens in which "." is a token of its own,   *)
(* so that basename.split(".")[0] is computed and not assumed.             *)
(***************************************************************************)
EXTENDS Naturals, Sequences, FiniteSets, TLC

(* ---------------------------- bounds ---------------------------------- *)
MaxCalls == 2
MaxZoom == 2
MaxBands == 2
MaxOps == 3

(* ---------------------------- inputs ---------------------------------- *)
ImageDir == <<"usr", 0>>
OutDir == <<"usr", 1>>
TempDir(n) == <<"tmp", n>>

ImageBasenames == { <<"scene_B4", ".", "TIF">>, <<"scene_B4">> }
OutputFolders == { ImageDir, OutDir }
BaseLinks == { <<"http://host">>, <<"http://host", "/">> }
ZoomLevels == 1..MaxZoom
BandCounts == 1..MaxBands

(* ------------------------- function helpers --------------------------- *)
Put(f, p, v) == [q \in (DOMAIN f) \cup {p} |-> IF q = p THEN v ELSE f[q]]
Drop(f, p) == [q \in (DOMAIN f) \ {p} |-> f[q]]
EmptyMap == [q \in {} |-> 0]
SetMin(S) == CHOOSE x \in S : \A y \in S : x <= y
SetMax(S) == CHOOSE x \in S : \A y \in S : x >= y
SeqRange(s) == { s[i] : i \in 1..Len(s) }

(* --------------------------- filesystem ------------------------------- *)
\* os.path.join(dir, name), os.path.basename, os.path.dirname
Join(dir, name) == <<dir, name>>
Basename(path) == path[2]
Dirname(path) == path[1]

IsFile(fsys, p) == p \in (DOMAIN fsys.rasters) \cup (DOMAIN fsys.xmls)
IsDirPath(fsys, p) == p \in DOMAIN fsys.trees
PathExists(fsys, p) == IsFile(fsys, p) \/ IsDirPath(fsys, p)
AllPaths(fsys) ==
    (DOMAIN fsys.rasters) \cup (DOMAIN fsys.xmls) \cup (DOMAIN fsys.trees)
ListDir(fsys, dir) == { Basename(p) : p \in { q \in AllPaths(fsys) : Dirname(q) = dir } }

(* --------------------------- image_info.Image ------------------------- *)
\* variant: the name up to the last "." (os.path.splitext)
SplitExt0(b) ==
    LET dots == { i \in 1..Len(b) : b[i] = "." }
    IN  IF dots = {} THEN b ELSE SubSeq(b, 1, SetMax(dots) - 1)

\* image_basename.split(".")[0]
SplitDot0(b) ==
    LET dots == { i \in 1..Len(b) : b[i] = "." }
    IN  IF dots = {} THEN b ELSE SubSeq(b, 1, SetMin(dots) - 1)

\* os.path.abspath: a path written relative to the working directory names
\* the same file as its absolute spelling
RelDir(n) == <<"rel", n>>
Abspath(path) ==
    IF Dirname(path)[1] = "rel"
    THEN Join(<<"usr", Dirname(path)[2]>>, Basename(path))
    ELSE path

\* Image._set_image_attributes
Image(path) ==
    [ image_path |-> Abspath(path),
      image_dir |-> Dirname(Abspath(path)),
      image_basename |-> Basename(Abspath(path)),
      image_name |-> SplitDot0(Basename(Abspath(path))) ]

\* variant: os.rename leaves the old path in place
OsRenameKeepOld(fsys, src, dst) ==
    IF ~IsFile(fsys, src)
    THEN [ fs |-> fsys, raised |-> "FileNotFoundError" ]
    ELSE IF IsDirPath(fsys, dst)
    THEN [ fs |-> fsys, raised |-> "IsADirectoryError" ]
    ELSE IF src = dst
    THEN [ fs |-> fsys, raised |-> "none" ]
    ELSE [ fs |-> IF src \in DOMAIN fsys.rasters
                  THEN [fsys EXCEPT !.rasters = Put(@, dst, fsys.rasters[src]),
                                    !.xmls = Drop(@, dst)]
                  ELSE [fsys EXCEPT !.xmls = Put(@, dst, fsys.xmls[src]),
                                    !.rasters = Drop(@, dst)],
           raised |-> "none" ]

\* os.rename(src, dst) of a file: dst is replaced when it exists
OsRename(fsys, src, dst) ==
    IF ~IsFile(fsys, src)
    THEN [ fs |-> fsys, raised |-> "FileNotFoundError" ]
    ELSE IF IsDirPath(fsys, dst)
    THEN [ fs |-> fsys, raised |-> "IsADirectoryError" ]
    ELSE IF src = dst
    THEN [ fs |-> fsys, raised |-> "none" ]
    ELSE [ fs |-> IF src \in DOMAIN fsys.rasters
                  THEN [fsys EXCEPT !.rasters = Put(Drop(@, src), dst, fsys.rasters[src]),
                                    !.xmls = Drop(@, dst)]
                  ELSE [fsys EXCEPT !.xmls = Put(Drop(@, src), dst, fsys.xmls[src]),
                                    !.rasters = Drop(@, dst)],
           raised |-> "none" ]

\* Utils.create_tempdir with no dir_name: a fresh directory of the temp area
CreateTempdir(fsys, n) == [fsys EXCEPT !.dirs = @ \cup {TempDir(n)}]

\* variant: a temporary file named after the temporary name, not the image
GetTempfileUnnamed(img, n) == Join(TempDir(n), <<"tmp", ".", "TIF">>)

\* Image.get_tempfile: os.path.join(Utils.create_tempdir(), image_basename)
GetTempfile(img, n) == Join(TempDir(n), img.image_basename)


\* Utils.check_creation_folder: makedirs when the directory is missing
CheckCreationFolder(fsys, dir) ==
    IF dir \notin fsys.dirs THEN [fsys EXCEPT !.dirs = @ \cup {dir}] ELSE fsys

(* --------------------------- exceptions ------------------------------- *)
\* the classes exceptions.py defines; raising exceptions.X for any other X
\* is an attribute error at the raise statement
ExceptionClasses == { "TMSError", "XMLError" }
Raise(class) == IF class \in ExceptionClasses THEN class ELSE "AttributeError"

\* an exception object of a class that takes no arguments of its own here;
\* no exception at all for "none"
NoException == [ class |-> "none", args |-> <<>> ]
Exception(class) == [ class |-> class, args |-> <<>> ]

\* exceptions.TMSError(code, message): super().__init__(message) and
\* self.message = message; the code is not kept
TMSError(code, message) ==
    [ class |-> "TMSError", args |-> <<message>>, message |-> message ]

\* exceptions.XMLError(code, message), the same
XMLError(code, message) ==
    [ class |-> "XMLError", args |-> <<message>>, message |-> message ]

(* --------------------------- Utils.validate_* ------------------------- *)
\* Utils.validate_band: raises when the path is no file; gdal.Open of a file
\* that is no raster gives no dataset.
ValidateBand(fsys, path) ==
    IF ~IsFile(fsys, path)
    THEN [raised |-> Raise("ValidationBandError"), opened |-> FALSE,
          RasterCount |-> 0]
    ELSE IF path \in DOMAIN fsys.rasters
         THEN [raised |-> "none", opened |-> TRUE,
               RasterCount |-> fsys.rasters[path].bands]
         ELSE [raised |-> "none", opened |-> FALSE, RasterCount |-> 0]

\* variant: the band count is not compared
ValidateImageBandsAnyCount(fsys, path, filelist) ==
    LET ds == ValidateBand(fsys, path)
    IN  IF ds.raised # "none" THEN [raised |-> ds.raised, value |-> FALSE]
        ELSE IF ~ds.opened THEN [raised |-> "AttributeError", value |-> FALSE]
        ELSE [raised |-> "none", value |-> TRUE]

\* Utils.validate_image_bands: validate_band(path).RasterCount == len(filelist)
ValidateImageBands(fsys, path, filelist) ==
    LET ds == ValidateBand(fsys, path)
    IN  IF ds.raised # "none" THEN [raised |-> ds.raised, value |-> FALSE]
        ELSE IF ~ds.opened THEN [raised |-> "AttributeError", value |-> FALSE]
        ELSE [raised |-> "none", value |-> (ds.RasterCount = Len(filelist))]

(* --------------------------- Utils.move_path_files -------------------- *)
\* Utils.remove_file: os.remove when the path exists
RemoveFile(fsys, p) ==
    [fsys EXCEPT !.rasters = Drop(@, p), !.xmls = Drop(@, p)]

\* shutil.copy(src, dest) into the directory dest: dest/basename(src) is
\* overwritten with the content of src
CopyInto(fsys, src, target) ==
    IF src \in DOMAIN fsys.rasters
    THEN [fsys EXCEPT !.rasters = Put(@, target, fsys.rasters[src]),
                      !.xmls = Drop(@, target)]
    ELSE [fsys EXCEPT !.xmls = Put(@, target, fsys.xmls[src]),
                      !.rasters = Drop(@, target)]

\* shutil.rmtree / shutil.move of a directory tree
RmTree(fsys, p) == [fsys EXCEPT !.trees = Drop(@, p)]
MoveTree(fsys, src, target) ==
    [fsys EXCEPT !.trees = Put(Drop(@, src), target, fsys.trees[src])]

\* if dir_path in os.listdir(dest): shutil.rmtree(os.path.join(dest, dir_path))
ClearExisting(fsys, dest, name) ==
    IF name \in ListDir(fsys, dest) THEN RmTree(fsys, Join(dest, name)) ELSE fsys

\* variant: the source tree is merged into a tree already at the destination
MergeTree(fsys, src, dest) ==
    LET target == Join(dest, Basename(src))
        old == IF target \in DOMAIN fsys.trees THEN fsys.trees[target] ELSE {}
    IN  [fsys EXCEPT !.trees = Put(Drop(@, src), target, old \cup fsys.trees[src])]

\* the directory branch when nothing fails: the destination subtree of the
\* same name is removed, then the source tree is moved into dest
ReplaceTree(fsys, src, dest) ==
    MoveTree(ClearExisting(fsys, dest, Basename(src)), src,
             Join(dest, Basename(src)))

\* variant: the destination entry of the same name is removed even when
\* src is no directory
MovePathFilesClearing(fsys, src, dest, src_remove, fail) ==
    LET target == Join(dest, Basename(src)) IN
    IF IsDirPath(fsys, src)
    THEN IF dest \notin fsys.dirs THEN [fs |-> fsys, raised |-> "OSError"]
         ELSE IF Basename(src) \in ListDir(fsys, dest)
                 /\ (fail = "rmtree" \/ ~IsDirPath(fsys, target))
         THEN [fs |-> fsys, raised |-> "OSError"]
         ELSE LET cleared == ClearExisting(fsys, dest, Basename(src))
              IN  IF fail = "move" THEN [fs |-> cleared, raised |-> "OSError"]
                  ELSE [fs |-> ReplaceTree(fsys, src, dest), raised |-> "none"]
    ELSE IF IsFile(fsys, src)
    THEN IF fail = "copy" \/ dest \notin fsys.dirs \/ IsDirPath(fsys, target)
         THEN [fs |-> fsys, raised |-> "OSError"]
         ELSE LET copied == CopyInto(fsys, src, target)
              IN  IF ~src_remove THEN [fs |-> copied, raised |-> "none"]
                  ELSE IF fail = "remove"
                       THEN [fs |-> copied, raised |-> "OSError"]
                       ELSE [fs |-> RemoveFile(copied, src), raised |-> "none"]
    ELSE [fs |-> ClearExisting(fsys, dest, Basename(src)), raised |-> "none"]

\* variant: a failed shutil.move leaves the destination as it was found
MovePathFilesKeepOld(fsys, src, dest, src_remove, fail) ==
    LET target == Join(dest, Basename(src)) IN
    IF IsDirPath(fsys, src)
    THEN IF dest \notin fsys.dirs THEN [fs |-> fsys, raised |-> "OSError"]
         ELSE IF Basename(src) \in ListDir(fsys, dest)
                 /\ (fail = "rmtree" \/ ~IsDirPath(fsys, target))
         THEN [fs |-> fsys, raised |-> "OSError"]
         ELSE IF fail = "move" THEN [fs |-> fsys, raised |-> "OSError"]
              ELSE [fs |-> ReplaceTree(fsys, src, dest), raised |-> "none"]
    ELSE IF IsFile(fsys, src)
    THEN IF fail = "copy" \/ dest \notin fsys.dirs \/ IsDirPath(fsys, target)
         THEN [fs |-> fsys, raised |-> "OSError"]
         ELSE LET copied == CopyInto(fsys, src, target)
              IN  IF ~src_remove THEN [fs |-> copied, raised |-> "none"]
                  ELSE IF fail = "remove"
                       THEN [fs |-> copied, raised |-> "OSError"]
                       ELSE [fs |-> RemoveFile(copied, src), raised |-> "none"]
    ELSE [fs |-> fsys, raised |-> "none"]

\* fail names the filesystem operation the environment lets fail
\* ("none", "rmtree", "move", "copy", "remove"); dest is a directory name.
MovePathFiles(fsys, src, dest, src_remove, fail) ==
    LET target == Join(dest, Basename(src)) IN
    IF IsDirPath(fsys, src)
    THEN \* os.listdir(dest) raises when dest is no directory
         IF dest \notin fsys.dirs THEN [fs |-> fsys, raised |-> "OSError"]
         ELSE IF Basename(src) \in ListDir(fsys, dest)
                 /\ (fail = "rmtree" \/ ~IsDirPath(fsys, target))
         THEN [fs |-> fsys, raised |-> "OSError"]
         ELSE LET cleared == ClearExisting(fsys, dest, Basename(src))
              IN  IF fail = "move" THEN [fs |-> cleared, raised |-> "OSError"]
                  \* afterwards src is neither a directory nor a file:
                  \* the copy and the removal find nothing
                  ELSE [fs |-> ReplaceTree(fsys, src, dest), raised |-> "none"]
    ELSE IF IsFile(fsys, src)
    THEN IF fail = "copy" \/ dest \notin fsys.dirs \/ IsDirPath(fsys, target)
         THEN [fs |-> fsys, raised |-> "OSError"]
         ELSE LET copied == CopyInto(fsys, src, target)
              IN  IF ~src_remove THEN [fs |-> copied, raised |-> "none"]
                  ELSE IF fail = "remove"
                       THEN [fs |-> copied, raised |-> "OSError"]
                       ELSE [fs |-> RemoveFile(copied, src), raised |-> "none"]
    ELSE [fs |-> fsys, raised |-> "none"]

(* --------------------------- commands --------------------------------- *)
NoDir == <<"none", 0>>
NoPath == <<NoDir, <<>>>>

\* Tiler._get_gdal_translate_scale_command, formatted
TranslateCommand(input_file, output_path) ==
    [ tool |-> "gdal_translate", input |-> input_file,
      output_path |-> output_path, output_dir |-> NoDir,
      min_zoom |-> 0, max_zoom |-> 0, nodata |-> <<>> ]

\* GdalContrastStretch._get_contrast_command, formatted
ContrastCommand(input_file, output_path) ==
    [ tool |-> "gdal_contrast_stretch", input |-> input_file,
      output_path |-> output_path, output_dir |-> NoDir,
      min_zoom |-> 0, max_zoom |-> 0, nodata |-> <<>> ]

\* variant: the zoom pair is taken in the order given
TilerCommandAsGiven(image_path, output_folder, nodata, zoom) ==
    [ tool |-> "gdal_tiler.py", input |-> image_path,
      output_path |-> NoPath, output_dir |-> output_folder,
      min_zoom |-> zoom[1], max_zoom |-> zoom[2],
      nodata |-> nodata ]

\* Tiler._get_gdal_tiler_command, formatted by create_tms
TilerCommand(image_path, output_folder, nodata, zoom) ==
    [ tool |-> "gdal_tiler.py", input |-> image_path,
      output_path |-> NoPath, output_dir |-> output_folder,
      min_zoom |-> SetMin(SeqRange(zoom)), max_zoom |-> SetMax(SeqRange(zoom)),
      nodata |-> nodata ]

\* Tiler._get_image_info: gdalinfo -json image_path
InfoCommand(image_path) ==
    [ tool |-> "gdalinfo", input |-> image_path,
      output_path |-> NoPath, output_dir |-> NoDir,
      min_zoom |-> 0, max_zoom |-> 0, nodata |-> <<>> ]

\* what gdal_translate and gdal_contrast_stretch write: a raster with the
\* bands of the input at the output path
WriteRaster(fsys, cmd, origin) ==
    [fsys EXCEPT !.rasters =
        Put(@, cmd.output_path,
            [origin |-> origin, bands |-> fsys.rasters[cmd.input].bands])]

\* what gdal_tiler.py writes: {output}/{input name}.tms/{zoom} for the zoom
\* levels min..max
TilerTreePath(cmd) ==
    Join(cmd.output_dir, SplitDot0(Basename(cmd.input)) \o <<".", "tms">>)
TilerLevels(cmd) == cmd.min_zoom..cmd.max_zoom

(* --------------------------- create_xml ------------------------------- *)
EndsWithSlash(b) == Len(b) > 0 /\ b[Len(b)] = "/"
\* os.path.join(base_link, '')
JoinEmpty(b) == IF EndsWithSlash(b) THEN b ELSE b \o <<"/">>
NormalizeBaseLink(b) == IF EndsWithSlash(b) THEN JoinEmpty(b) ELSE b

XmlData(base_link, image, max_zoom, corners) ==
    [ ServerUrl |-> NormalizeBaseLink(base_link) \o <<"/">> \o image.image_name
                    \o <<".", "tms", "/", "${z}/${x}/${y}.png">>,
      TileLevel |-> max_zoom,
      TargetWindow |-> corners,
      CachePath |-> <<"./gdalwmscache/cache_">> \o image.image_name
                    \o <<".", "tms">> ]

XmlFilename(image) == image.image_name \o <<".", "xml">>


(* --------------------------- state ------------------------------------ *)
VARIABLES
    fs,        \* the filesystem: dirs, rasters, xmls, trees
    pc,        \* position of the make_tiles call
    args,      \* arguments of the current make_tiles call
    loc,       \* local variables of make_tiles
    steps,     \* pipeline steps begun in the current call, in order
    cmds,      \* external commands started in the current call, in order
    running,   \* external processes started and not yet exited
    result,    \* value returned by the current call
    error,     \* class of the exception that reached the caller of the current call
    exception, \* that exception: its class and the attributes it carries
    fs0,       \* the filesystem when the current call began
    nextTmp,   \* number of temporary names handed out so far
    calls,     \* number of make_tiles calls begun
    procs      \* external processes of the current call that have exited, in order

vars == << fs, pc, args, loc, steps, cmds, running, result, error, exception,
           fs0, nextTmp, calls, procs >>

NoImage == Image(NoPath)
NoLocals ==
    [ input_image |-> NoImage, converted_image |-> NoImage,
      contrasted_image |-> NoImage, output_folder_name |-> NoDir,
      tms |-> NoDir, xml |-> <<>>, tms_path |-> NoPath, xml_path |-> NoPath ]
NoArgs ==
    [ image_path |-> NoPath, base_link |-> <<>>, output_folder |-> NoDir,
      zoom |-> <<0, 0>>, nodata |-> <<>>, contrast |-> FALSE,
      convert |-> FALSE, move |-> FALSE ]
NoResult == <<NoPath, NoPath>>

NoData(n) == [i \in 1..n |-> 0]
Corners == [ upperLeft |-> <<"ulx", "uly">>, lowerRight |-> <<"lrx", "lry">> ]

ArgSet(image_path, base_link) ==
    { [ image_path |-> image_path, base_link |-> base_link,
        output_folder |-> f, zoom |-> z, nodata |-> NoData(n),
        contrast |-> ct, convert |-> cv, move |-> mv ] :
      f \in OutputFolders, z \in ZoomLevels \X ZoomLevels, n \in BandCounts,
      ct \in BOOLEAN, cv \in BOOLEAN, mv \in BOOLEAN }

Init ==
    /\ \E b \in ImageBasenames, n \in BandCounts :
          fs = [ dirs |-> {ImageDir},
                 rasters |-> (Join(ImageDir, b) :> [origin |-> "original", bands |-> n]),
                 xmls |-> EmptyMap,
                 trees |-> EmptyMap ]
    /\ pc = "idle"
    /\ args = NoArgs
    /\ loc = NoLocals
    /\ steps = <<>>
    /\ cmds = <<>>
    /\ running = {}
    /\ result = NoResult
    /\ error = "none"
    /\ exception = NoException
    /\ fs0 = fs
    /\ nextTmp = 0
    /\ calls = 0
    /\ procs = <<>>

(* --------------------------- make_tiles ------------------------------- *)
\* the caller invokes make_tiles; input_image = image_info.Image(image_path).
\* Consecutive calls are given the same image, base link, output folder,
\* nodata list and convert/contrast/move flags; the zoom levels vary.  The
\* caller stops at the first exception.
Call ==
    /\ pc \in {"idle", "done"}
    /\ calls < MaxCalls
    /\ \E p \in DOMAIN fs.rasters, bl \in BaseLinks :
          /\ fs.rasters[p].origin = "original"
          /\ args' \in ArgSet(p, bl)
          /\ calls > 0 =>
                /\ args'.base_link = args.base_link
                /\ args'.output_folder = args.output_folder
                /\ args'.nodata = args.nodata
                /\ args'.convert = args.convert
                /\ args'.contrast = args.contrast
                /\ args'.move = args.move
    /\ loc' = [NoLocals EXCEPT !.input_image = Image(args'.image_path)]
    /\ pc' = "start"
    /\ steps' = <<>>
    /\ cmds' = <<>>
    /\ result' = NoResult
    /\ error' = "none"
    /\ exception' = NoException
    /\ fs0' = fs
    /\ calls' = calls + 1
    /\ procs' = <<>>
    /\ UNCHANGED << fs, running, nextTmp >>

\* an exception object leaves make_tiles
FailWith(object) ==
    /\ pc' = "failed"
    /\ error' = object.class
    /\ exception' = object

Fail(exc) == FailWith(Exception(exc))

\* exit statuses of an external command
ExitCodes == 0..2
InfoExitCodes == 0..1

\* what a command printed on its standard output: whether it parses as JSON
\* and, if it does, the key paths of the document
NoStdout == [ json |-> FALSE, paths |-> {} ]
InfoStdouts ==
    { NoStdout }
    \cup { [ json |-> TRUE, paths |-> P ] :
             P \in { {"cornerCoordinates", "cornerCoordinates.upperLeft"},
                      {"cornerCoordinates", "cornerCoordinates.lowerRight"},
                      {"cornerCoordinates", "cornerCoordinates.upperLeft",
                       "cornerCoordinates.lowerRight"} } }

NoExc == [ cmd |-> <<>>, returncode |-> 0 ]

\* variant: subprocess.run(command, shell=True) without check=True
SubprocessUnchecked(command, returncode) ==
    [ raised |-> "none", exc |-> NoExc ]

\* Utils.subprocess(command) once the process it started has exited with
\* returncode: subprocess.run(command, shell=True, check=True)
Subprocess(command, returncode) ==
    IF returncode = 0
    THEN [ raised |-> "none", exc |-> NoExc ]
    ELSE [ raised |-> "CalledProcessError",
           exc |-> [ cmd |-> command, returncode |-> returncode ] ]

\* Popen(...).communicate()[0]: the standard output, whatever the exit status
Communicate(command, returncode, stdout) ==
    [ raised |-> "none", exc |-> NoExc, stdout |-> stdout ]

\* one exited process: the command, how it exited, what it printed and what
\* waiting for it raised in the caller
Exited(cmd, returncode, stdout, run) ==
    [ cmd |-> cmd, returncode |-> returncode, stdout |-> stdout,
      raised |-> run.raised, exc |-> run.exc ]

\* _get_image_info: json.loads of the output of gdalinfo -json
GetImageInfo(stdout) ==
    IF stdout.json
    THEN [ raised |-> "none", image_data |-> stdout.paths ]
    ELSE [ raised |-> "JSONDecodeError", image_data |-> {} ]

\* image_data['cornerCoordinates']['upperLeft'] and [...]['lowerRight']
CornerLookup(info) ==
    IF info.raised # "none" THEN info.raised
    ELSE IF "cornerCoordinates" \notin info.image_data THEN "KeyError"
    ELSE IF "cornerCoordinates.upperLeft" \notin info.image_data THEN "KeyError"
    ELSE IF "cornerCoordinates.lowerRight" \notin info.image_data THEN "KeyError"
    ELSE "none"

\* variant: except KeyError instead of except Exception
CreateXmlTryKeyErrorOnly(stdout) ==
    LET exc == CornerLookup(GetImageInfo(stdout)) IN
    IF exc = "KeyError" THEN Raise("XMLError") ELSE exc

\* the try block of create_xml: any exception becomes XMLError
CreateXmlTry(stdout) ==
    LET exc == CornerLookup(GetImageInfo(stdout)) IN
    IF exc # "none" THEN Raise("XMLError") ELSE "none"

\* variant: open(output_path, 'x'), which refuses an existing file
OpenWriteExclusive(fsys, path, data) ==
    IF Dirname(path) \notin fsys.dirs
    THEN [ fs |-> fsys, raised |-> "FileNotFoundError" ]
    ELSE IF PathExists(fsys, path)
    THEN [ fs |-> fsys, raised |-> "FileExistsError" ]
    ELSE [ fs |-> [fsys EXCEPT !.xmls = Put(@, path, data),
                               !.rasters = Drop(@, path)],
           raised |-> "none" ]

\* with open(output_path, 'w') as output_file: output_file.write(xml_data)
OpenWrite(fsys, path, data) ==
    IF Dirname(path) \notin fsys.dirs
    THEN [ fs |-> fsys, raised |-> "FileNotFoundError" ]
    ELSE [ fs |-> [fsys EXCEPT !.xmls = Put(@, path, data),
                               !.rasters = Drop(@, path)],
           raised |-> "none" ]

\* Utils.subprocess: subprocess.run(command, shell=True, check=True), start
Spawn(cmd) ==
    /\ running' = running \cup {cmd}
    /\ cmds' = Append(cmds, cmd)

\* if convert: gdal_translate_byte_and_scale(input_image, get_tempfile())
ConvertStart ==
    /\ pc = "start"
    /\ args.convert
    /\ fs' = CreateTempdir(fs, nextTmp)
    /\ nextTmp' = nextTmp + 1
    /\ Spawn(TranslateCommand(loc.input_image.image_path,
                              GetTempfile(loc.input_image, nextTmp)))
    /\ steps' = Append(steps, "CONVERT")
    /\ pc' = "convert_run"
    /\ UNCHANGED << args, loc, result, error, exception, fs0, calls, procs >>

\* variant: the conversion is started and not waited for
ConvertExitNoWait ==
    /\ pc = "convert_run"
    /\ LET cmd == cmds[Len(cmds)] IN
       /\ cmd.input \in DOMAIN fs.rasters
       /\ fs' = WriteRaster(fs, cmd, "converted")
       /\ loc' = [loc EXCEPT !.converted_image = Image(cmd.output_path)]
       /\ procs' = Append(procs, Exited(cmd, 0, NoStdout, Subprocess(cmd, 0)))
       /\ pc' = "contrast"
    /\ UNCHANGED << args, steps, cmds, running, result, error, exception, fs0, nextTmp, calls >>

\* gdal_translate exits; Utils.subprocess returns or raises
ConvertExit ==
    /\ pc = "convert_run"
    /\ \E returncode \in ExitCodes :
          LET cmd == cmds[Len(cmds)]
              run == Subprocess(cmd, returncode)
          IN
          /\ returncode = 0 => cmd.input \in DOMAIN fs.rasters
          /\ running' = running \ {cmd}
          /\ procs' = Append(procs, Exited(cmd, returncode, NoStdout, run))
          /\ IF run.raised = "none"
             THEN /\ fs' = IF returncode = 0
                           THEN WriteRaster(fs, cmd, "converted") ELSE fs
                  /\ loc' = [loc EXCEPT !.converted_image = Image(cmd.output_path)]
                  /\ pc' = "contrast"
                  /\ UNCHANGED << error, exception >>
             ELSE /\ \E partial \in BOOLEAN :
                        fs' = IF partial /\ cmd.input \in DOMAIN fs.rasters
                              THEN WriteRaster(fs, cmd, "converted") ELSE fs
                  /\ Fail(run.raised)
                  /\ UNCHANGED loc
    /\ UNCHANGED << args, steps, cmds, result, fs0, nextTmp, calls >>

\* else: converted_image = input_image
ConvertSkip ==
    /\ pc = "start"
    /\ ~args.convert
    /\ loc' = [loc EXCEPT !.converted_image = loc.input_image]
    /\ pc' = "contrast"
    /\ UNCHANGED << fs, args, steps, cmds, running, result, error, exception, fs0,
                    nextTmp, calls, procs >>

\* if contrast: GdalContrastStretch.get_image(converted_image.image_path,
\*                                            converted_image.get_tempfile())
ContrastStart ==
    /\ pc = "contrast"
    /\ args.contrast
    /\ fs' = CreateTempdir(fs, nextTmp)
    /\ nextTmp' = nextTmp + 1
    /\ Spawn(ContrastCommand(loc.converted_image.image_path,
                             GetTempfile(loc.converted_image, nextTmp)))
    /\ steps' = Append(steps, "CONTRAST")
    /\ pc' = "contrast_run"
    /\ UNCHANGED << args, loc, result, error, exception, fs0, calls, procs >>

\* variant: the except clause logs the error and does not raise it again
ContrastExitSwallow ==
    /\ pc = "contrast_run"
    /\ \E returncode \in ExitCodes :
          LET cmd == cmds[Len(cmds)]
              run == Subprocess(cmd, returncode)
          IN
          /\ returncode = 0 => cmd.input \in DOMAIN fs.rasters
          /\ running' = running \ {cmd}
          /\ procs' = Append(procs, Exited(cmd, returncode, NoStdout, run))
          /\ IF run.raised = "none"
             THEN /\ fs' = IF returncode = 0
                           THEN WriteRaster(fs, cmd, "contrast") ELSE fs
                  /\ loc' = [loc EXCEPT !.contrasted_image = Image(cmd.output_path)]
                  /\ pc' = "alloc"
                  /\ UNCHANGED << error, exception >>
             ELSE /\ \E partial \in BOOLEAN :
                        fs' = IF partial /\ cmd.input \in DOMAIN fs.rasters
                              THEN WriteRaster(fs, cmd, "contrast") ELSE fs
                  /\ loc' = [loc EXCEPT !.contrasted_image = Image(cmd.output_path)]
                  /\ pc' = "alloc"
                  /\ UNCHANGED << error, exception >>
    /\ UNCHANGED << args, steps, cmds, result, fs0, nextTmp, calls >>

\* gdal_contrast_stretch exits; get_image returns output_path or re-raises
ContrastExit ==
    /\ pc = "contrast_run"
    /\ \E returncode \in ExitCodes :
          LET cmd == cmds[Len(cmds)]
              run == Subprocess(cmd, returncode)
          IN
          /\ returncode = 0 => cmd.input \in DOMAIN fs.rasters
          /\ running' = running \ {cmd}
          /\ procs' = Append(procs, Exited(cmd, returncode, NoStdout, run))
          /\ IF run.raised = "none"
             THEN /\ fs' = IF returncode = 0
                           THEN WriteRaster(fs, cmd, "contrast") ELSE fs
                  /\ loc' = [loc EXCEPT !.contrasted_image = Image(cmd.output_path)]
                  /\ pc' = "alloc"
                  /\ UNCHANGED << error, exception >>
             ELSE /\ \E partial \in BOOLEAN :
                        fs' = IF partial /\ cmd.input \in DOMAIN fs.rasters
                              THEN WriteRaster(fs, cmd, "contrast") ELSE fs
                  /\ Fail(run.raised)
                  /\ UNCHANGED loc
    /\ UNCHANGED << args, steps, cmds, result, fs0, nextTmp, calls >>

\* else: contrasted_image = converted_image
ContrastSkip ==
    /\ pc = "contrast"
    /\ ~args.contrast
    /\ loc' = [loc EXCEPT !.contrasted_image = loc.converted_image]
    /\ pc' = "alloc"
    /\ UNCHANGED << fs, args, steps, cmds, running, result, error, exception, fs0,
                    nextTmp, calls, procs >>


\* output_folder_name = create_tempdir() if move, else
\* check_creation_folder(output_folder); os.makedirs of a missing output
\* folder may fail
AllocOutput ==
    /\ pc = "alloc"
    /\ \/ /\ fs' = IF args.move THEN CreateTempdir(fs, nextTmp)
                   ELSE CheckCreationFolder(fs, args.output_folder)
          /\ nextTmp' = IF args.move THEN nextTmp + 1 ELSE nextTmp
          /\ loc' = [loc EXCEPT !.output_folder_name =
                        IF args.move THEN TempDir(nextTmp) ELSE args.output_folder]
          /\ pc' = "pyramid"
          /\ UNCHANGED << error, exception >>
       \/ /\ ~args.move
          /\ args.output_folder \notin fs.dirs
          /\ Fail("OSError")
          /\ UNCHANGED << fs, nextTmp, loc >>
    /\ UNCHANGED << args, steps, cmds, running, result, fs0, calls, procs >>

\* variant: the band check comes after the tiler command has run
BuildPyramidStartLateCheck ==
    /\ pc = "pyramid"
    /\ LET valid == ValidateImageBands(fs, loc.contrasted_image.image_path,
                                       args.nodata)
           cmd == TilerCommand(loc.contrasted_image.image_path,
                               loc.output_folder_name, args.nodata, args.zoom)
       IN
       /\ steps' = Append(steps, "BUILD_PYRAMID")
       /\ IF valid.raised # "none" \/ ~valid.value
          THEN /\ FailWith(TMSError(1, "nodata length must be same as datasource bands"))
               /\ cmds' = Append(cmds, cmd)
               /\ fs' = [fs EXCEPT !.trees = Put(@, TilerTreePath(cmd), TilerLevels(cmd))]
               /\ UNCHANGED running
          ELSE /\ Spawn(cmd)
               /\ pc' = "tiler_run"
               /\ UNCHANGED << fs, error, exception >>
    /\ UNCHANGED << args, loc, result, fs0, nextTmp, calls, procs >>

\* create_tms up to the start of the tiler command: the band check, then
\* Utils.subprocess(command)
BuildPyramidStart ==
    /\ pc = "pyramid"
    /\ LET valid == ValidateImageBands(fs, loc.contrasted_image.image_path,
                                       args.nodata)
       IN
       /\ steps' = Append(steps, "BUILD_PYRAMID")
       /\ IF valid.raised # "none"
          THEN Fail(valid.raised) /\ UNCHANGED << cmds, running >>
          ELSE IF ~valid.value
          THEN FailWith(TMSError(1, "nodata length must be same as datasource bands"))
               /\ UNCHANGED << cmds, running >>
          ELSE /\ Spawn(TilerCommand(loc.contrasted_image.image_path,
                                     loc.output_folder_name, args.nodata, args.zoom))
               /\ pc' = "tiler_run"
               /\ UNCHANGED << error, exception >>
    /\ UNCHANGED << fs, args, loc, result, fs0, nextTmp, calls, procs >>

\* the tiler exits; create_tms returns output_folder
TilerExit ==
    /\ pc = "tiler_run"
    /\ \E returncode \in ExitCodes :
          LET cmd == cmds[Len(cmds)]
              run == Subprocess(cmd, returncode)
              tree == TilerTreePath(cmd)
              old == IF tree \in DOMAIN fs.trees THEN fs.trees[tree] ELSE {}
          IN
          /\ running' = running \ {cmd}
          /\ procs' = Append(procs, Exited(cmd, returncode, NoStdout, run))
          /\ IF run.raised = "none"
             THEN /\ IF returncode = 0
                     THEN \E kept \in {{}, old} :
                             fs' = [fs EXCEPT !.trees =
                                       Put(@, tree, kept \cup TilerLevels(cmd))]
                     ELSE fs' = fs
                  /\ loc' = [loc EXCEPT !.tms = cmd.output_dir]
                  /\ pc' = "xml"
                  /\ UNCHANGED << error, exception >>
             ELSE /\ \E partial \in BOOLEAN :
                        fs' = IF partial
                              THEN [fs EXCEPT !.trees =
                                       Put(@, tree, old \cup {cmd.min_zoom})]
                              ELSE fs
                  /\ Fail(run.raised)
                  /\ UNCHANGED loc
    /\ UNCHANGED << args, steps, cmds, result, fs0, nextTmp, calls >>

\* variant: the corner coordinates are queried from the original image
XmlStartOriginalPath ==
    /\ pc = "xml"
    /\ Spawn(InfoCommand(loc.input_image.image_path))
    /\ steps' = Append(steps, "BUILD_XML")
    /\ pc' = "info_run"
    /\ UNCHANGED << fs, args, loc, result, error, exception, fs0, nextTmp, calls, procs >>

\* variant: converted_image.remove_file() comes before create_xml
XmlStartAfterCleanup ==
    /\ pc = "xml"
    /\ fs' = IF args.convert
             THEN [fs EXCEPT !.rasters = Drop(@, loc.converted_image.image_path)]
             ELSE fs
    /\ running' = running \cup {InfoCommand(loc.contrasted_image.image_path)}
    /\ cmds' = Append(cmds, InfoCommand(loc.contrasted_image.image_path))
    /\ steps' = Append(steps, "BUILD_XML")
    /\ pc' = "info_run"
    /\ UNCHANGED << args, loc, result, error, exception, fs0, nextTmp, calls, procs >>

\* create_xml up to the start of gdalinfo (subprocess.Popen)
XmlStart ==
    /\ pc = "xml"
    /\ Spawn(InfoCommand(loc.contrasted_image.image_path))
    /\ steps' = Append(steps, "BUILD_XML")
    /\ pc' = "info_run"
    /\ UNCHANGED << fs, args, loc, result, error, exception, fs0, nextTmp, calls, procs >>

\* variant: a failure of create_xml removes the converted file and the
\* staging directory before the exception leaves make_tiles
XmlFinishCleansUp ==
    /\ pc = "info_run"
    /\ \E returncode \in InfoExitCodes, stdout \in InfoStdouts :
          LET cmd == cmds[Len(cmds)]
              run == Communicate(cmd, returncode, stdout)
              exc == CreateXmlTry(run.stdout)
              data == XmlData(args.base_link, loc.input_image,
                              SetMax(SeqRange(args.zoom)), Corners)
              filename == XmlFilename(loc.input_image)
              output_path == Join(loc.output_folder_name, filename)
              written == OpenWrite(fs, output_path, data)
              cleaned ==
                  [fs EXCEPT
                     !.rasters = IF args.convert
                                 THEN Drop(@, loc.converted_image.image_path)
                                 ELSE @,
                     !.dirs = IF args.move THEN @ \ {loc.output_folder_name}
                              ELSE @,
                     !.trees = IF args.move
                               THEN [ q \in { t \in DOMAIN @ :
                                               Dirname(t) # loc.output_folder_name }
                                      |-> @[q] ]
                               ELSE @]
          IN
          /\ returncode = 0 => cmd.input \in DOMAIN fs.rasters /\ stdout.json
          /\ cmd.input \notin DOMAIN fs.rasters => stdout = NoStdout
          /\ running' = running \ {cmd}
          /\ procs' = Append(procs, Exited(cmd, returncode, stdout, run))
          /\ IF exc # "none"
             THEN /\ IF exc = "XMLError"
                     THEN FailWith(XMLError(1, "corner coordinates"))
                     ELSE Fail(exc)
                  /\ fs' = cleaned /\ UNCHANGED loc
             ELSE IF written.raised # "none"
             THEN Fail(written.raised) /\ fs' = cleaned /\ UNCHANGED loc
             ELSE /\ fs' = written.fs
                  /\ loc' = [loc EXCEPT !.xml = filename]
                  /\ pc' = "cleanup"
                  /\ UNCHANGED << error, exception >>
    /\ UNCHANGED << args, steps, cmds, result, fs0, nextTmp, calls >>

\* communicate() returns; the output is parsed, the descriptor written and
\* the file name returned
XmlFinish ==
    /\ pc = "info_run"
    /\ \E returncode \in InfoExitCodes, stdout \in InfoStdouts :
          LET cmd == cmds[Len(cmds)]
              run == Communicate(cmd, returncode, stdout)
              exc == CreateXmlTry(run.stdout)
              data == XmlData(args.base_link, loc.input_image,
                              SetMax(SeqRange(args.zoom)), Corners)
              filename == XmlFilename(loc.input_image)
              output_path == Join(loc.output_folder_name, filename)
              written == OpenWrite(fs, output_path, data)
          IN
          /\ returncode = 0 => cmd.input \in DOMAIN fs.rasters /\ stdout.json
          /\ cmd.input \notin DOMAIN fs.rasters => stdout = NoStdout
          /\ running' = running \ {cmd}
          /\ procs' = Append(procs, Exited(cmd, returncode, stdout, run))
          /\ IF exc # "none"
             THEN /\ IF exc = "XMLError"
                     THEN FailWith(XMLError(1, "corner coordinates"))
                     ELSE Fail(exc)
                  /\ UNCHANGED << fs, loc >>
             ELSE IF written.raised # "none"
             THEN Fail(written.raised) /\ UNCHANGED << fs, loc >>
             ELSE /\ fs' = written.fs
                  /\ loc' = [loc EXCEPT !.xml = filename]
                  /\ pc' = "cleanup"
                  /\ UNCHANGED << error, exception >>
    /\ UNCHANGED << args, steps, cmds, result, fs0, nextTmp, calls >>

\* variant: the contrast-stretched file is removed as well
CleanupIntermediates ==
    /\ pc = "cleanup"
    /\ fs' = IF args.convert
             THEN [fs EXCEPT !.rasters =
                     Drop(Drop(@, loc.converted_image.image_path),
                          loc.contrasted_image.image_path)]
             ELSE [fs EXCEPT !.rasters =
                     IF args.contrast
                     THEN Drop(@, loc.contrasted_image.image_path) ELSE @]
    /\ steps' = IF args.convert THEN Append(steps, "CLEANUP_CONVERTED") ELSE steps
    /\ loc' = [loc EXCEPT
                 !.tms_path = Join(loc.tms, loc.converted_image.image_name
                                            \o <<".", "tms">>),
                 !.xml_path = Join(loc.output_folder_name, loc.xml)]
    /\ pc' = IF args.move THEN "move" ELSE "return"
    /\ UNCHANGED << args, cmds, running, result, error, exception, fs0, nextTmp,
                    calls, procs >>

\* variant: converted_image.remove_file() whatever the convert flag
CleanupAlways ==
    /\ pc = "cleanup"
    /\ fs' = [fs EXCEPT !.rasters = Drop(@, loc.converted_image.image_path)]
    /\ steps' = IF args.convert THEN Append(steps, "CLEANUP_CONVERTED") ELSE steps
    /\ loc' = [loc EXCEPT
                 !.tms_path = Join(loc.tms, loc.converted_image.image_name
                                            \o <<".", "tms">>),
                 !.xml_path = Join(loc.output_folder_name, loc.xml)]
    /\ pc' = IF args.move THEN "move" ELSE "return"
    /\ UNCHANGED << args, cmds, running, result, error, exception, fs0, nextTmp, calls, procs >>

\* variant: the working image is removed instead of the converted one
CleanupWorkingImage ==
    /\ pc = "cleanup"
    /\ fs' = IF args.convert
             THEN [fs EXCEPT !.rasters = Drop(@, loc.contrasted_image.image_path)]
             ELSE fs
    /\ steps' = IF args.convert THEN Append(steps, "CLEANUP_CONVERTED") ELSE steps
    /\ loc' = [loc EXCEPT
                 !.tms_path = Join(loc.tms, loc.converted_image.image_name
                                            \o <<".", "tms">>),
                 !.xml_path = Join(loc.output_folder_name, loc.xml)]
    /\ pc' = IF args.move THEN "move" ELSE "return"
    /\ UNCHANGED << args, cmds, running, result, error, exception, fs0, nextTmp, calls, procs >>

\* if convert: converted_image.remove_file(); then tms_path and xml_path
Cleanup ==
    /\ pc = "cleanup"
    /\ fs' = IF args.convert
             THEN [fs EXCEPT !.rasters = Drop(@, loc.converted_image.image_path)]
             ELSE fs
    /\ steps' = IF args.convert THEN Append(steps, "CLEANUP_CONVERTED") ELSE steps
    /\ loc' = [loc EXCEPT
                 !.tms_path = Join(loc.tms, loc.converted_image.image_name
                                            \o <<".", "tms">>),
                 !.xml_path = Join(loc.output_folder_name, loc.xml)]
    /\ pc' = IF args.move THEN "move" ELSE "return"
    /\ UNCHANGED << args, cmds, running, result, error, exception, fs0, nextTmp, calls, procs >>

MoveFailures == {"none", "mkdir", "rmtree", "move", "copy", "remove"}

\* if move: check_creation_folder(output_folder), then both move_path_files
\* inside the try block
Move ==
    /\ pc = "move"
    /\ steps' = Append(steps, "MOVE")
    /\ \E fail \in MoveFailures :
          /\ IF fail = "mkdir" /\ args.output_folder \notin fs.dirs
             THEN /\ fs' = fs
                  /\ Fail("OSError")
                       /\ UNCHANGED loc
             ELSE LET output_path == args.output_folder
                      fs1 == CheckCreationFolder(fs, args.output_folder)
                      m1 == MovePathFiles(fs1, loc.tms_path, output_path, TRUE, fail)
                      m2 == MovePathFiles(m1.fs, loc.xml_path, output_path, TRUE, fail)
                  IN  IF m1.raised # "none"
                      THEN /\ fs' = m1.fs
                           /\ FailWith(TMSError(2, "Move process with error"))
                                         /\ UNCHANGED loc
                      ELSE IF m2.raised # "none"
                      THEN /\ fs' = m2.fs
                           /\ FailWith(TMSError(2, "Move process with error"))
                                         /\ UNCHANGED loc
                      ELSE /\ fs' = m2.fs
                           /\ loc' = [loc EXCEPT
                                 !.xml_path = Join(output_path, loc.xml),
                                 !.tms_path = Join(output_path,
                                     loc.converted_image.image_name \o <<".", "tms">>)]
                           /\ pc' = "return"
                           /\ UNCHANGED << error, exception >>
    /\ UNCHANGED << args, cmds, running, result, fs0, nextTmp, calls, procs >>

\* return tms_path, xml_path
Return ==
    /\ pc = "return"
    /\ steps' = Append(steps, "DONE")
    /\ result' = << loc.tms_path, loc.xml_path >>
    /\ pc' = "done"
    /\ UNCHANGED << fs, args, loc, cmds, running, error, exception, fs0, nextTmp, calls, procs >>

Next ==
    \/ Call
    \/ ConvertStart \/ ConvertExit \/ ConvertSkip
    \/ ContrastStart \/ ContrastExit \/ ContrastSkip
    \/ AllocOutput \/ BuildPyramidStart \/ TilerExit
    \/ XmlStart \/ XmlFinish
    \/ Cleanup \/ Move \/ Return

Spec == Init /\ [][Next]_vars

(* ------------------- the move block of make_tiles --------------------- *)
\* make_tiles with move=True (convert and contrast off) from the point where
\* tms_path and xml_path have been computed (tiler.py:375-376): the staging
\* directory holds the XML file that create_xml wrote and, when the tiler left
\* its tree under that name, {base}.tms; the output folder may hold the tree
\* of an earlier run.  fs0 is the filesystem at that point.
InitMove ==
    /\ \E b \in ImageBasenames, n \in BandCounts, f \in OutputFolders,
          z \in ZoomLevels \X ZoomLevels, bl \in BaseLinks,
          built \in BOOLEAN, earlier \in BOOLEAN :
          LET image == Image(Join(ImageDir, b))
              tiler == TilerCommand(image.image_path, TempDir(0), NoData(n), z)
              info == InfoCommand(image.image_path)
              stdout == [ json |-> TRUE,
                          paths |-> {"cornerCoordinates",
                                     "cornerCoordinates.upperLeft",
                                     "cornerCoordinates.lowerRight"} ]
              name == image.image_name \o <<".", "tms">>
              staged == IF built THEN Join(TempDir(0), name) :> TilerLevels(tiler)
                        ELSE EmptyMap
              old == IF earlier THEN Join(f, name) :> {0} ELSE EmptyMap
          IN
          /\ args = [ image_path |-> image.image_path, base_link |-> bl,
                      output_folder |-> f, zoom |-> z, nodata |-> NoData(n),
                      contrast |-> FALSE, convert |-> FALSE, move |-> TRUE ]
          /\ fs = [ dirs |-> {ImageDir, TempDir(0)}
                               \cup (IF earlier THEN {f} ELSE {}),
                    rasters |-> (image.image_path :>
                                    [origin |-> "original", bands |-> n]),
                    xmls |-> (Join(TempDir(0), XmlFilename(image)) :>
                                 XmlData(bl, image, SetMax(SeqRange(z)), Corners)),
                    trees |-> staged @@ old ]
          /\ loc = [ input_image |-> image, converted_image |-> image,
                     contrasted_image |-> image,
                     output_folder_name |-> TempDir(0), tms |-> TempDir(0),
                     xml |-> XmlFilename(image),
                     tms_path |-> Join(TempDir(0), name),
                     xml_path |-> Join(TempDir(0), XmlFilename(image)) ]
          /\ cmds = << tiler, info >>
          /\ procs = << Exited(tiler, 0, NoStdout, Subprocess(tiler, 0)),
                        Exited(info, 0, stdout, Communicate(info, 0, stdout)) >>
    /\ pc = "move"
    /\ steps = << "BUILD_PYRAMID", "BUILD_XML" >>
    /\ running = {}
    /\ result = NoResult
    /\ error = "none"
    /\ exception = NoException
    /\ fs0 = fs
    /\ nextTmp = 1
    /\ calls = 1

NextMove == Move \/ Return

SpecMove == InitMove /\ [][NextMove]_vars

(* ------------------- two concurrent make_tiles calls ------------------ *)
\* Two callers run make_tiles at the same time on the same image, each from
\* the allocation of its output folder to its return (convert and contrast
\* off); every filesystem operation is one step and nothing but the other
\* call disturbs them.  pc, args, loc, result and error hold one value per
\* caller.
Callers == {1, 2}

ParLocals ==
    [ input_image |-> NoImage, output_folder_name |-> NoDir, tms |-> NoDir,
      xml |-> <<>>, tms_path |-> NoPath, xml_path |-> NoPath, listed |-> FALSE ]

ParArgSet(image_path) ==
    { [ image_path |-> image_path, base_link |-> <<"http://host">>,
        output_folder |-> f, zoom |-> z, nodata |-> NoData(1),
        contrast |-> FALSE, convert |-> FALSE, move |-> mv ] :
      f \in OutputFolders,
      z \in { y \in ZoomLevels \X ZoomLevels : y[1] <= y[2] },
      mv \in BOOLEAN }

InitPar ==
    /\ fs = [ dirs |-> {ImageDir},
              rasters |-> (Join(ImageDir, <<"scene_B4", ".", "TIF">>)
                              :> [origin |-> "original", bands |-> 1]),
              xmls |-> EmptyMap,
              trees |-> EmptyMap ]
    /\ pc = [c \in Callers |-> "idle"]
    /\ args = [c \in Callers |-> NoArgs]
    /\ loc = [c \in Callers |-> ParLocals]
    /\ result = [c \in Callers |-> NoResult]
    /\ error = [c \in Callers |-> "none"]
    /\ exception = [c \in Callers |-> NoException]
    /\ steps = <<>>
    /\ cmds = <<>>
    /\ running = {}
    /\ fs0 = fs
    /\ nextTmp = 0
    /\ calls = 0
    /\ procs = <<>>

ParUnchanged == UNCHANGED << steps, cmds, running, fs0, calls, procs >>

ParGoto(c, label) == pc' = [pc EXCEPT ![c] = label]
ParFail(c, object) ==
    /\ pc' = [pc EXCEPT ![c] = "failed"]
    /\ error' = [error EXCEPT ![c] = object.class]
    /\ exception' = [exception EXCEPT ![c] = object]

\* caller c invokes make_tiles; input_image = Image(image_path)
ParCall(c) ==
    /\ pc[c] = "idle"
    /\ \E p \in DOMAIN fs.rasters :
          /\ fs.rasters[p].origin = "original"
          /\ \E a \in ParArgSet(p) : args' = [args EXCEPT ![c] = a]
          /\ loc' = [loc EXCEPT ![c] = [ParLocals EXCEPT !.input_image = Image(p)]]
    /\ ParGoto(c, "alloc")
    /\ UNCHANGED << fs, result, error, exception, nextTmp >>
    /\ ParUnchanged

\* variant: every call stages its output in the same temporary directory
ParAllocSharedStaging(c) ==
    /\ pc[c] = "alloc"
    /\ fs' = IF args[c].move THEN CreateTempdir(fs, 0)
             ELSE CheckCreationFolder(fs, args[c].output_folder)
    /\ nextTmp' = nextTmp
    /\ loc' = [loc EXCEPT ![c].output_folder_name =
                  IF args[c].move THEN TempDir(0) ELSE args[c].output_folder]
    /\ ParGoto(c, "pyramid")
    /\ UNCHANGED << args, result, error, exception >>
    /\ ParUnchanged

\* output_folder_name = create_tempdir() if move, else
\* check_creation_folder(output_folder)
ParAlloc(c) ==
    /\ pc[c] = "alloc"
    /\ fs' = IF args[c].move THEN CreateTempdir(fs, nextTmp)
             ELSE CheckCreationFolder(fs, args[c].output_folder)
    /\ nextTmp' = IF args[c].move THEN nextTmp + 1 ELSE nextTmp
    /\ loc' = [loc EXCEPT ![c].output_folder_name =
                  IF args[c].move THEN TempDir(nextTmp) ELSE args[c].output_folder]
    /\ ParGoto(c, "pyramid")
    /\ UNCHANGED << args, result, error, exception >>
    /\ ParUnchanged

\* create_tms: the band check, then the tiler command is started
ParTilerStart(c) ==
    /\ pc[c] = "pyramid"
    /\ LET valid == ValidateImageBands(fs, loc[c].input_image.image_path,
                                       args[c].nodata)
       IN  IF valid.raised # "none" THEN ParFail(c, Exception(valid.raised))
           ELSE IF ~valid.value
           THEN ParFail(c, TMSError(1, "nodata length must be same as datasource bands"))
           ELSE ParGoto(c, "tiler_run") /\ UNCHANGED << error, exception >>
    /\ UNCHANGED << fs, args, loc, result, nextTmp >>
    /\ ParUnchanged

\* the tiler command exits with status 0, its tree written into the folder
\* (into or in place of a tree that is there); create_tms returns the folder
ParTilerExit(c) ==
    /\ pc[c] = "tiler_run"
    /\ LET cmd == TilerCommand(loc[c].input_image.image_path,
                               loc[c].output_folder_name, args[c].nodata,
                               args[c].zoom)
           tree == TilerTreePath(cmd)
           old == IF tree \in DOMAIN fs.trees THEN fs.trees[tree] ELSE {}
       IN  /\ \E kept \in {{}, old} :
                 fs' = [fs EXCEPT !.trees = Put(@, tree, kept \cup TilerLevels(cmd))]
           /\ loc' = [loc EXCEPT ![c].tms = cmd.output_dir]
    /\ ParGoto(c, "xml")
    /\ UNCHANGED << args, result, error, exception, nextTmp >>
    /\ ParUnchanged

\* create_xml with a usable answer of gdalinfo, then tms_path and xml_path
ParXml(c) ==
    /\ pc[c] = "xml"
    /\ LET filename == XmlFilename(loc[c].input_image)
           written == OpenWrite(fs, Join(loc[c].output_folder_name, filename),
                                XmlData(args[c].base_link, loc[c].input_image,
                                        SetMax(SeqRange(args[c].zoom)), Corners))
       IN  IF written.raised # "none"
           THEN ParFail(c, Exception(written.raised)) /\ UNCHANGED << fs, loc >>
           ELSE /\ fs' = written.fs
                /\ loc' = [loc EXCEPT
                      ![c].xml = filename,
                      ![c].tms_path = Join(loc[c].tms,
                                           loc[c].input_image.image_name
                                              \o <<".", "tms">>),
                      ![c].xml_path = Join(loc[c].output_folder_name, filename)]
                /\ ParGoto(c, IF args[c].move THEN "move_mkdir" ELSE "return")
                /\ UNCHANGED << error, exception >>
    /\ UNCHANGED << args, result, nextTmp >>
    /\ ParUnchanged

\* if move: output_path = check_creation_folder(output_folder)
ParMoveCheckFolder(c) ==
    /\ pc[c] = "move_mkdir"
    /\ fs' = CheckCreationFolder(fs, args[c].output_folder)
    /\ ParGoto(c, "move_list")
    /\ UNCHANGED << args, loc, result, error, exception, nextTmp >>
    /\ ParUnchanged

\* move_path_files(tms_path, output_path): os.path.isdir(src) and
\* dir_path in os.listdir(dest)
ParMoveList(c) ==
    /\ pc[c] = "move_list"
    /\ IF IsDirPath(fs, loc[c].tms_path)
       THEN /\ loc' = [loc EXCEPT ![c].listed =
                          Basename(loc[c].tms_path)
                             \in ListDir(fs, args[c].output_folder)]
            /\ ParGoto(c, "move_rmtree")
       ELSE /\ loc' = loc
            /\ ParGoto(c, "move_copy")
    /\ UNCHANGED << fs, args, result, error, exception, nextTmp >>
    /\ ParUnchanged

\* shutil.rmtree(os.path.join(dest, dir_path)) when the name was listed;
\* a failure is raised again as TMSError by make_tiles
ParMoveRmtree(c) ==
    /\ pc[c] = "move_rmtree"
    /\ LET target == Join(args[c].output_folder, Basename(loc[c].tms_path)) IN
       IF ~loc[c].listed
       THEN ParGoto(c, "move_move") /\ UNCHANGED << fs, error, exception >>
       ELSE IF IsDirPath(fs, target)
       THEN /\ fs' = RmTree(fs, target)
            /\ ParGoto(c, "move_move")
            /\ UNCHANGED << error, exception >>
       ELSE ParFail(c, TMSError(2, "Move process with error")) /\ UNCHANGED fs
    /\ UNCHANGED << args, loc, result, nextTmp >>
    /\ ParUnchanged

\* shutil.move(src, dest): refuses a destination that exists; a failure is
\* raised again as TMSError by make_tiles
ParMoveMove(c) ==
    /\ pc[c] = "move_move"
    /\ LET target == Join(args[c].output_folder, Basename(loc[c].tms_path)) IN
       IF PathExists(fs, target) \/ ~IsDirPath(fs, loc[c].tms_path)
       THEN ParFail(c, TMSError(2, "Move process with error")) /\ UNCHANGED fs
       ELSE /\ fs' = MoveTree(fs, loc[c].tms_path, target)
            /\ ParGoto(c, "move_copy")
            /\ UNCHANGED << error, exception >>
    /\ UNCHANGED << args, loc, result, nextTmp >>
    /\ ParUnchanged

\* move_path_files(xml_path, output_path): shutil.copy(src, dest) of a file
ParMoveCopy(c) ==
    /\ pc[c] = "move_copy"
    /\ LET target == Join(args[c].output_folder, Basename(loc[c].xml_path)) IN
       IF ~IsFile(fs, loc[c].xml_path)
       THEN ParGoto(c, "move_remove") /\ UNCHANGED << fs, error, exception >>
       ELSE IF IsDirPath(fs, target)
       THEN ParFail(c, TMSError(2, "Move process with error")) /\ UNCHANGED fs
       ELSE /\ fs' = CopyInto(fs, loc[c].xml_path, target)
            /\ ParGoto(c, "move_remove")
            /\ UNCHANGED << error, exception >>
    /\ UNCHANGED << args, loc, result, nextTmp >>
    /\ ParUnchanged

\* Utils.remove_file(src), then xml_path and tms_path under output_path
ParMoveRemove(c) ==
    /\ pc[c] = "move_remove"
    /\ fs' = RemoveFile(fs, loc[c].xml_path)
    /\ loc' = [loc EXCEPT
          ![c].xml_path = Join(args[c].output_folder, loc[c].xml),
          ![c].tms_path = Join(args[c].output_folder,
                               loc[c].input_image.image_name \o <<".", "tms">>)]
    /\ ParGoto(c, "return")
    /\ UNCHANGED << args, result, error, exception, nextTmp >>
    /\ ParUnchanged

\* return tms_path, xml_path
ParReturn(c) ==
    /\ pc[c] = "return"
    /\ result' = [result EXCEPT ![c] = << loc[c].tms_path, loc[c].xml_path >>]
    /\ ParGoto(c, "done")
    /\ UNCHANGED << fs, args, loc, error, exception, nextTmp >>
    /\ ParUnchanged

NextPar ==
    \E c \in Callers :
       \/ ParCall(c) \/ ParAlloc(c) \/ ParTilerStart(c) \/ ParTilerExit(c)
       \/ ParXml(c) \/ ParMoveCheckFolder(c) \/ ParMoveList(c)
       \/ ParMoveRmtree(c) \/ ParMoveMove(c) \/ ParMoveCopy(c)
       \/ ParMoveRemove(c) \/ ParReturn(c)

SpecPar == InitPar /\ [][NextPar]_vars

(* ------------------- Composer.create_composition ---------------------- *)
\* a file that is no raster
TextFile == Join(ImageDir, <<"notes", ".", "txt">>)

\* the band files of a product, one raster each, and a path with no file
BandFile(b) == Join(ImageDir, << b, ".", "TIF" >>)
BandNames == { "B4", "B5", "B6" }
MissingFile == Join(ImageDir, << "test_error", ".", "tif" >>)
FileLists ==
    { << BandFile("B6"), BandFile("B5"), f >> :
         f \in { BandFile("B4"), BandFile("B5"), MissingFile, TextFile } }
    \cup { << MissingFile, BandFile("B5"), BandFile("B4") >> }
CompositionFilenames == { << "LC08" >>, << "LC08", ".", "TIF" >> }
TiffExtensions == { "TIF", "tif", "tiff", "TIFF" }

\* type_name = f'r{bands[0]}g{bands[1]}b{bands[2]}', for bands [6, 5, 4]
TypeName == "r6g5b4"

\* Composer.get_image_output_path
GetImageOutputPath(filename, output_path, type_name) ==
    IF /\ Len(filename) >= 2
       /\ filename[Len(filename) - 1] = "."
       /\ filename[Len(filename)] \in TiffExtensions
    THEN Join(output_path, filename)
    ELSE Join(output_path, filename \o << "_", type_name, ".", "TIF" >>)

\* Composer.get_temporary_filename: the n-th candidate name of the
\* temporary directory, as the path of a file
GetTemporaryFilename(n) == Join(TempDir(n), <<>>)

\* Composer.delete_temporary_file
DeleteTemporaryFile(fsys, filepath) ==
    IF PathExists(fsys, filepath) /\ IsFile(fsys, filepath)
    THEN RemoveFile(fsys, filepath) ELSE fsys

\* Composer.get_gdal_merge_command and get_gdal_translate_8bits_command,
\* formatted
MergeCommand(ordered_filelist, output_path) ==
    [ tool |-> "gdal_merge.py", input |-> ordered_filelist,
      output_path |-> output_path, output_dir |-> NoDir,
      min_zoom |-> 0, max_zoom |-> 0, nodata |-> <<>> ]
Translate8bitsCommand(input_path, output_path) ==
    [ tool |-> "gdal_translate", input |-> input_path,
      output_path |-> output_path, output_dir |-> NoDir,
      min_zoom |-> 0, max_zoom |-> 0, nodata |-> <<>> ]

\* what gdal_merge.py -separate writes: one raster with the bands of all
\* its inputs
RECURSIVE SumBands(_, _)
SumBands(fsys, filelist) ==
    IF filelist = <<>> THEN 0
    ELSE fsys.rasters[Head(filelist)].bands + SumBands(fsys, Tail(filelist))
WriteMerged(fsys, cmd) ==
    [fsys EXCEPT !.rasters =
        Put(@, cmd.output_path,
            [origin |-> "merged", bands |-> SumBands(fsys, cmd.input)])]

\* for band in ordered_filelist: Utils.validate_band(band)
RECURSIVE ValidateBands(_, _)
ValidateBands(fsys, filelist) ==
    IF filelist = <<>> THEN "none"
    ELSE LET ds == ValidateBand(fsys, Head(filelist))
         IN  IF ds.raised # "none" THEN ds.raised
             ELSE ValidateBands(fsys, Tail(filelist))

\* shutil.move(src, dst) of a file onto a file path
ShutilMoveFile(fsys, src, dst) ==
    IF Dirname(dst) \notin fsys.dirs
    THEN [ fs |-> fsys, raised |-> "FileNotFoundError" ]
    ELSE OsRename(fsys, src, dst)

CompArgs(filename, ordered_filelist, output_path, scale) ==
    [ filename |-> filename, ordered_filelist |-> ordered_filelist,
      output_path |-> output_path, bands |-> << 6, 5, 4 >>, scale |-> scale ]
CompLocals ==
    [ type_name |-> "", filepath |-> NoPath, merged_file |-> NoPath,
      scale_file |-> NoPath, scale_file_bound |-> FALSE,
      temporary_file |-> NoPath ]

InitComp ==
    /\ \E n \in BandCounts :
          fs = [ dirs |-> {ImageDir, OutDir},
                 rasters |-> [ p \in { BandFile(b) : b \in BandNames } |->
                                 [ origin |-> "original",
                                   bands |-> IF p = BandFile("B4") THEN n ELSE 1 ] ],
                 xmls |-> (TextFile :> "text"),
                 trees |-> EmptyMap ]
    /\ pc = "idle"
    /\ args = CompArgs(<<>>, <<>>, NoDir, FALSE)
    /\ loc = CompLocals
    /\ steps = <<>>
    /\ cmds = <<>>
    /\ running = {}
    /\ result = NoResult
    /\ error = "none"
    /\ exception = NoException
    /\ fs0 = fs
    /\ nextTmp = 0
    /\ calls = 0
    /\ procs = <<>>

\* the caller invokes create_composition; the caller stops at the first
\* exception
CompCall ==
    /\ pc \in {"idle", "done"}
    /\ calls < MaxCalls
    /\ \E filename \in CompositionFilenames, filelist \in FileLists,
          scale \in BOOLEAN :
          args' = CompArgs(filename, filelist, OutDir, scale)
    /\ loc' = [CompLocals EXCEPT !.type_name = TypeName]
    /\ pc' = "validate"
    /\ cmds' = <<>>
    /\ procs' = <<>>
    /\ result' = NoResult
    /\ error' = "none"
    /\ exception' = NoException
    /\ fs0' = fs
    /\ calls' = calls + 1
    /\ UNCHANGED << fs, steps, running, nextTmp >>

\* the validation loop, then filepath = get_image_output_path(...)
CompValidate ==
    /\ pc = "validate"
    /\ LET raised == ValidateBands(fs, args.ordered_filelist) IN
       IF raised # "none"
       THEN Fail(raised) /\ UNCHANGED loc
       ELSE /\ loc' = [loc EXCEPT !.filepath =
                          GetImageOutputPath(args.filename, args.output_path,
                                             loc.type_name)]
            /\ pc' = "merge"
            /\ UNCHANGED << error, exception >>
    /\ UNCHANGED << fs, args, steps, cmds, running, result, fs0, nextTmp,
                    calls, procs >>

\* merged_file = get_temporary_filename(); Utils.subprocess(merge command)
CompMergeStart ==
    /\ pc = "merge"
    /\ Spawn(MergeCommand(args.ordered_filelist, GetTemporaryFilename(nextTmp)))
    /\ loc' = [loc EXCEPT !.merged_file = GetTemporaryFilename(nextTmp)]
    /\ nextTmp' = nextTmp + 1
    /\ pc' = "merge_run"
    /\ UNCHANGED << fs, args, steps, result, error, exception, fs0, calls, procs >>

\* gdal_merge.py exits; temporary_file = merged_file
CompMergeExit ==
    /\ pc = "merge_run"
    /\ \E returncode \in ExitCodes :
          LET cmd == cmds[Len(cmds)]
              run == Subprocess(cmd, returncode)
          IN
          /\ returncode = 0 => \A i \in 1..Len(cmd.input) :
                                  cmd.input[i] \in DOMAIN fs.rasters
          /\ running' = running \ {cmd}
          /\ procs' = Append(procs, Exited(cmd, returncode, NoStdout, run))
          /\ IF run.raised = "none"
             THEN /\ fs' = IF returncode = 0 THEN WriteMerged(fs, cmd) ELSE fs
                  /\ loc' = [loc EXCEPT !.temporary_file = loc.merged_file]
                  /\ pc' = "scale"
                  /\ UNCHANGED << error, exception >>
             ELSE /\ Fail(run.raised)
                  /\ UNCHANGED << fs, loc >>
    /\ UNCHANGED << args, steps, cmds, result, fs0, nextTmp, calls >>

\* if scale: scale_file = get_temporary_filename(); Utils.subprocess(scale
\* command)
CompScaleStart ==
    /\ pc = "scale"
    /\ args.scale
    /\ Spawn(Translate8bitsCommand(loc.merged_file, GetTemporaryFilename(nextTmp)))
    /\ loc' = [loc EXCEPT !.scale_file = GetTemporaryFilename(nextTmp),
                          !.scale_file_bound = TRUE]
    /\ nextTmp' = nextTmp + 1
    /\ pc' = "scale_run"
    /\ UNCHANGED << fs, args, steps, result, error, exception, fs0, calls, procs >>

\* gdal_translate exits; temporary_file = scale_file
CompScaleExit ==
    /\ pc = "scale_run"
    /\ \E returncode \in ExitCodes :
          LET cmd == cmds[Len(cmds)]
              run == Subprocess(cmd, returncode)
          IN
          /\ returncode = 0 => cmd.input \in DOMAIN fs.rasters
          /\ running' = running \ {cmd}
          /\ procs' = Append(procs, Exited(cmd, returncode, NoStdout, run))
          /\ IF run.raised = "none"
             THEN /\ fs' = IF returncode = 0
                           THEN WriteRaster(fs, cmd, "scaled") ELSE fs
                  /\ loc' = [loc EXCEPT !.temporary_file = loc.scale_file]
                  /\ pc' = "move"
                  /\ UNCHANGED << error, exception >>
             ELSE /\ Fail(run.raised)
                  /\ UNCHANGED << fs, loc >>
    /\ UNCHANGED << args, steps, cmds, result, fs0, nextTmp, calls >>

\* scale is off: nothing is bound to scale_file
CompScaleSkip ==
    /\ pc = "scale"
    /\ ~args.scale
    /\ pc' = "move"
    /\ UNCHANGED << fs, args, loc, steps, cmds, running, result, error, exception,
                    fs0, nextTmp, calls, procs >>

\* shutil.move(temporary_file, filepath); if scale_file: delete it; delete
\* merged_file.  Reading scale_file when nothing was bound to it raises
\* UnboundLocalError.
CompMove ==
    /\ pc = "move"
    /\ LET moved == ShutilMoveFile(fs, loc.temporary_file, loc.filepath) IN
       IF moved.raised # "none"
       THEN /\ Fail(moved.raised)
            /\ fs' = moved.fs
       ELSE IF ~loc.scale_file_bound
       THEN /\ Fail("UnboundLocalError")
            /\ fs' = moved.fs
       ELSE /\ fs' = DeleteTemporaryFile(
                        DeleteTemporaryFile(moved.fs, loc.scale_file),
                        loc.merged_file)
            /\ pc' = "finish"
            /\ UNCHANGED << error, exception >>
    /\ UNCHANGED << args, loc, steps, cmds, running, result, fs0, nextTmp,
                    calls, procs >>

\* if Utils.validate_image_bands(filepath, ordered_filelist): return the
\* record; otherwise the function ends and returns None
CompReturn ==
    /\ pc = "finish"
    /\ LET valid == ValidateImageBands(fs, loc.filepath, args.ordered_filelist) IN
       IF valid.raised # "none"
       THEN Fail(valid.raised) /\ UNCHANGED result
       ELSE /\ result' = IF valid.value
                         THEN [ name |-> Basename(loc.filepath),
                                path |-> loc.filepath,
                                type |-> loc.type_name ]
                         ELSE [ name |-> <<>>, path |-> NoPath, type |-> "None" ]
            /\ pc' = "done"
            /\ UNCHANGED << error, exception >>
    /\ UNCHANGED << fs, args, loc, steps, cmds, running, fs0, nextTmp, calls,
                    procs >>

NextComp ==
    \/ CompCall \/ CompValidate
    \/ CompMergeStart \/ CompMergeExit
    \/ CompScaleStart \/ CompScaleExit \/ CompScaleSkip
    \/ CompMove \/ CompReturn

SpecComp == InitComp /\ [][NextComp]_vars

(* ------------------- Image and Utils called directly ------------------ *)
\* file names of the image directory, of which one exists as a raster, and
\* the new names given to rename_file
UtilBasenames ==
    { <<"scene_B4", ".", "TIF">>, <<"scene_B4">>, <<"scene", ".", "v2", ".", "TIF">> }
NewFilenames ==
    { <<"my_image">>, <<"my_image", ".", "TIF">>, <<"scene_B4">> }

UtilArgs(op, image_path, new_filename, filelist) ==
    [ op |-> op, image_path |-> image_path, new_filename |-> new_filename,
      filelist |-> filelist ]

\* a tile tree beside the image, and the tree of the same name that an
\* earlier move may have left in the destination directory
UtilTree == Join(ImageDir, <<"scene", ".", "tms">>)
UtilMoved == Join(OutDir, Basename(UtilTree))
MoveSources == { Join(ImageDir, b) : b \in UtilBasenames } \cup {TextFile, UtilTree}

InitUtil ==
    /\ \E b \in UtilBasenames, n \in BandCounts, existing \in BOOLEAN :
          fs = [ dirs |-> {ImageDir, OutDir},
                 rasters |-> (Join(ImageDir, b) :> [origin |-> "original", bands |-> n]),
                 xmls |-> (TextFile :> "text"),
                 trees |-> IF existing
                           THEN (UtilTree :> {1, 2}) @@ (UtilMoved :> {0})
                           ELSE (UtilTree :> {1, 2}) ]
    /\ pc = "idle"
    /\ args = UtilArgs("none", NoPath, <<>>, <<>>)
    /\ loc = NoLocals
    /\ steps = <<>>
    /\ cmds = <<>>
    /\ running = {}
    /\ result = NoResult
    /\ error = "none"
    /\ exception = NoException
    /\ fs0 = fs
    /\ nextTmp = 0
    /\ calls = 0
    /\ procs = <<>>

\* image = Image(image_path), with an absolute or a relative path of a file
\* that may or may not exist
ImageInit ==
    /\ calls < MaxOps
    /\ \E d \in {ImageDir, RelDir(0)}, b \in UtilBasenames :
          /\ loc' = [loc EXCEPT !.input_image = Image(Join(d, b))]
          /\ args' = UtilArgs("Image", Join(d, b), <<>>, <<>>)
    /\ pc' = "image"
    /\ result' = NoResult
    /\ error' = "none"
    /\ exception' = NoException
    /\ fs0' = fs
    /\ calls' = calls + 1
    /\ UNCHANGED << fs, steps, cmds, running, nextTmp, procs >>

\* image.rename_file(new_filename)
RenameFile ==
    /\ pc = "image"
    /\ calls < MaxOps
    /\ \E new_filename \in NewFilenames :
          LET new_path == Join(loc.input_image.image_dir, new_filename)
              renamed == OsRename(fs, loc.input_image.image_path, new_path)
          IN
          /\ fs' = renamed.fs
          /\ error' = renamed.raised
          /\ exception' = Exception(renamed.raised)
          /\ loc' = IF renamed.raised = "none"
                    THEN [loc EXCEPT !.input_image =
                             Image(Join(loc.input_image.image_dir, new_filename))]
                    ELSE loc
          /\ args' = UtilArgs("rename_file", loc.input_image.image_path,
                              new_filename, <<>>)
    /\ result' = NoResult
    /\ fs0' = fs
    /\ calls' = calls + 1
    /\ UNCHANGED << pc, steps, cmds, running, nextTmp, procs >>

\* Utils.validate_image_bands(image_path, filelist) on a raster, on a file
\* that is no raster and on a path that does not exist
ValidateImageBandsCall ==
    /\ calls < MaxOps
    /\ \E image_path \in { Join(ImageDir, b) : b \in UtilBasenames } \cup {TextFile},
          n \in BandCounts :
          LET valid == ValidateImageBands(fs, image_path, NoData(n)) IN
          /\ error' = valid.raised
          /\ exception' = Exception(valid.raised)
          /\ result' = IF valid.raised = "none" THEN valid.value ELSE NoResult
          /\ args' = UtilArgs("validate_image_bands", image_path, <<>>, NoData(n))
    /\ fs0' = fs
    /\ calls' = calls + 1
    /\ UNCHANGED << fs, pc, loc, steps, cmds, running, nextTmp, procs >>

\* Utils.move_path_files(src, dest, src_remove) on a file, on a directory
\* tree and on a path that does not exist; dest is an existing directory
MovePathFilesCall ==
    /\ calls < MaxOps
    /\ \E src \in MoveSources, src_remove \in BOOLEAN, fail \in MoveFailures :
          LET moved == MovePathFiles(fs, src, OutDir, src_remove, fail) IN
          /\ fs' = moved.fs
          /\ error' = moved.raised
          /\ exception' = Exception(moved.raised)
          /\ args' = [ op |-> "move_path_files", src |-> src, dest |-> OutDir,
                       src_remove |-> src_remove, fail |-> fail ]
    /\ result' = NoResult
    /\ fs0' = fs
    /\ calls' = calls + 1
    /\ UNCHANGED << pc, loc, steps, cmds, running, nextTmp, procs >>

NextUtil == ImageInit \/ RenameFile \/ ValidateImageBandsCall \/ MovePathFilesCall

SpecUtil == InitUtil /\ [][NextUtil]_vars


(* ====================== properties of make_tiles ===================== *)
StepOrder == << "CONVERT", "CONTRAST", "BUILD_PYRAMID", "BUILD_XML",
                "CLEANUP_CONVERTED", "MOVE", "DONE" >>
Rank(step) == CHOOSE i \in 1..Len(StepOrder) : StepOrder[i] = step
Enabled(step, a) ==
    CASE step = "CONVERT" -> a.convert
      [] step = "CONTRAST" -> a.contrast
      [] step = "CLEANUP_CONVERTED" -> a.convert
      [] step = "MOVE" -> a.move
      [] OTHER -> TRUE
ExpectedSteps(a) == SelectSeq(StepOrder, LAMBDA st : Enabled(st, a))
LastStep == IF steps = <<>> THEN "START" ELSE steps[Len(steps)]
StepOfTool(tool) ==
    CASE tool = "gdal_translate" -> "CONVERT"
      [] tool = "gdal_contrast_stretch" -> "CONTRAST"
      [] tool = "gdal_tiler.py" -> "BUILD_PYRAMID"
      [] tool = "gdalinfo" -> "BUILD_XML"
IsPrefix(s, t) == Len(s) <= Len(t) /\ s = SubSeq(t, 1, Len(s))

ZoomLo == IF args.zoom[1] <= args.zoom[2] THEN args.zoom[1] ELSE args.zoom[2]
ZoomHi == IF args.zoom[1] <= args.zoom[2] THEN args.zoom[2] ELSE args.zoom[1]
BaseName == SplitDot0(Basename(args.image_path))
FinalTms == Join(args.output_folder, BaseName \o <<".", "tms">>)
FinalXml == Join(args.output_folder, BaseName \o <<".", "xml">>)
BandMismatchFailure ==
    pc = "failed" /\ error = "TMSError" /\ LastStep = "BUILD_PYRAMID"

\* C1: the steps of a make_tiles call begin in the fixed order CONVERT,
\* CONTRAST, BUILD_PYRAMID, BUILD_XML, CLEANUP_CONVERTED, MOVE, DONE, the
\* optional ones only when their flag is on; none is repeated or revisited; a
\* completed call has run exactly the enabled steps; and the only external
\* process ever running is the one of the step in progress.
C1_StepOrder ==
    /\ IsPrefix(steps, ExpectedSteps(args))
    /\ \A i, j \in 1..Len(steps) : i < j => Rank(steps[i]) < Rank(steps[j])
    /\ pc = "done" => steps = ExpectedSteps(args)
    /\ \A c \in running :
          /\ c = cmds[Len(cmds)]
          /\ StepOfTool(c.tool) = LastStep
    /\ pc \in {"idle", "start", "contrast", "alloc", "pyramid", "xml", "cleanup",
               "move", "return", "done", "failed"} => running = {}
C1_Witness ==
    pc = "done" /\ args.convert /\ args.contrast /\ args.move /\ Len(steps) = Len(StepOrder)

\* C2: a successful make_tiles(image, output_folder = F) returns
\* (F/{base}.tms, F/{base}.xml), base being the name of the caller's image up
\* to its first "."; neither path lies in a temporary directory.
C2_ReturnedPaths ==
    pc = "done" =>
       /\ result = << FinalTms, FinalXml >>
       /\ Dirname(result[1])[1] # "tmp"
       /\ Dirname(result[2])[1] # "tmp"
C2_Witness ==
    pc = "done" /\ args.convert /\ args.contrast /\ args.move
       /\ result[1] = FinalTms /\ Len(Basename(args.image_path)) > 1

\* C3: when len(nodata) differs from the band count of the raster, create_tms
\* raises TMSError at once: no tiler process is started and the filesystem
\* is left as create_tms found it.
C3_BandCheckFirst ==
    [][ ( /\ pc = "pyramid"
          /\ loc.contrasted_image.image_path \in DOMAIN fs.rasters
          /\ fs.rasters[loc.contrasted_image.image_path].bands # Len(args.nodata) )
        => ( /\ pc' = "failed"
             /\ error' = "TMSError"
             /\ fs' = fs
             /\ cmds' = cmds
             /\ running' = {} ) ]_vars
C3_Witness ==
    /\ BandMismatchFailure
    /\ \A i \in 1..Len(cmds) : cmds[i].tool # "gdal_tiler.py"
    /\ fs.rasters[loc.contrasted_image.image_path].bands # Len(args.nodata)

C5_ZoomOrder ==
    /\ \A i \in 1..Len(cmds) :
          cmds[i].tool = "gdal_tiler.py" =>
             /\ cmds[i].min_zoom = ZoomLo
             /\ cmds[i].max_zoom = ZoomHi
             /\ cmds[i] = TilerCommand(cmds[i].input, cmds[i].output_dir, args.nodata,
                                       << args.zoom[2], args.zoom[1] >>)
             /\ ( /\ pc \in {"xml", "info_run", "cleanup"}
                  /\ TilerTreePath(cmds[i]) \notin DOMAIN fs0.trees )
                => fs.trees[TilerTreePath(cmds[i])] = ZoomLo..ZoomHi
    /\ pc = "cleanup" =>
          fs.xmls[Join(loc.output_folder_name, loc.xml)].TileLevel = ZoomHi
C5_Witness ==
    /\ pc = "cleanup"
    /\ args.zoom[1] > args.zoom[2]
    /\ fs.trees[Join(loc.output_folder_name, BaseName \o <<".", "tms">>)]
          = args.zoom[2]..args.zoom[1]


\* the paths the steps begun so far were given to write
StepOutputs ==
    { cmds[i].output_path :
        i \in { k \in 1..Len(cmds) :
                  cmds[k].tool \in {"gdal_translate", "gdal_contrast_stretch"} } }
    \cup { TilerTreePath(cmds[i]) :
             i \in { k \in 1..Len(cmds) : cmds[k].tool = "gdal_tiler.py" } }
    \cup ( IF "BUILD_XML" \in SeqRange(steps)
           THEN { Join(loc.output_folder_name, XmlFilename(loc.input_image)) }
           ELSE {} )
    \cup ( IF "MOVE" \in SeqRange(steps)
           THEN { Join(args.output_folder, Basename(loc.tms_path)),
                  Join(args.output_folder, loc.xml) }
           ELSE {} )

\* C6: during and after every make_tiles call, successful or not, the
\* caller's image exists unchanged and is not the output path of any step;
\* with convert off the cleanup does not remove it.
C6_OriginalKept ==
    calls > 0 =>
       /\ args.image_path \in DOMAIN fs.rasters
       /\ fs.rasters[args.image_path].origin = "original"
       /\ fs.rasters[args.image_path] = fs0.rasters[args.image_path]
       /\ args.image_path \notin StepOutputs
C6_Witness ==
    /\ pc = "done"
    /\ ~args.convert
    /\ loc.converted_image.image_path = args.image_path
    /\ args.output_folder = Dirname(args.image_path)
    /\ args.image_path \in DOMAIN fs.rasters

\* C7: after a successful call with convert on, the file written by the
\* CONVERT step does not exist (whatever contrast and move are).
C7_ConvertedRemoved ==
    pc = "done" =>
       /\ \A p \in DOMAIN fs.rasters : fs.rasters[p].origin # "converted"
       /\ args.convert =>
             /\ cmds[1].tool = "gdal_translate"
             /\ ~PathExists(fs, cmds[1].output_path)
C7_Witness ==
    /\ pc = "done"
    /\ args.convert
    /\ args.contrast
    /\ args.move
    /\ ~PathExists(fs, loc.converted_image.image_path)
    /\ PathExists(fs, loc.contrasted_image.image_path)

\* C8: after each successful call with move on, the output folder holds the
\* {base}.tms tree with exactly the zoom levels of this call and the
\* {base}.xml of this call, and no tile tree or XML file is left in a
\* temporary directory.
C8_LatestOnly ==
    (pc = "done" /\ args.move) =>
       /\ FinalTms \in DOMAIN fs.trees
       /\ fs.trees[FinalTms] = ZoomLo..ZoomHi
       /\ FinalXml \in DOMAIN fs.xmls
       /\ fs.xmls[FinalXml] = XmlData(args.base_link, Image(args.image_path), ZoomHi,
                                      Corners)
       /\ \A p \in (DOMAIN fs.trees) \cup (DOMAIN fs.xmls) : Dirname(p)[1] # "tmp"
C8_Witness ==
    /\ pc = "done"
    /\ args.move
    /\ calls > 1
    /\ FinalTms \in DOMAIN fs0.trees
    /\ fs0.trees[FinalTms] # fs.trees[FinalTms]
    /\ fs.trees[FinalTms] \subseteq fs0.trees[FinalTms]
    /\ fs0.xmls[FinalXml] # fs.xmls[FinalXml]

\* C9 as claimed: after a successful call with move on, the staging
\* directory of the call does not exist.
C9_StagingRemoved ==
    (pc = "done" /\ args.move) => loc.output_folder_name \notin fs.dirs

\* C10 as claimed: a failure in the MOVE step reaches the caller as TMSError,
\* and what was relocated before the failure stays at the destination.
C10_MoveFailureIsTMSError ==
    (pc = "failed" /\ LastStep = "MOVE") =>
       /\ error = "TMSError"
       /\ loc.tms_path \notin DOMAIN fs.trees =>
             (FinalTms \in DOMAIN fs.trees /\ fs.trees[FinalTms] = ZoomLo..ZoomHi)

\* C11 as claimed: whether or not base_link ends with "/", the ServerUrl of
\* the descriptor has exactly one "/" between the base link and the image
\* name: http://host/{name}.tms/${z}/${x}/${y}.png.
C11_SingleSlash ==
    pc = "cleanup" =>
       fs.xmls[Join(loc.output_folder_name, loc.xml)].ServerUrl
          = << "http://host", "/" >> \o BaseName
               \o << ".", "tms", "/", "${z}/${x}/${y}.png" >>

\* the image the pipeline works on: the output of the last conversion or
\* contrast command of the call, the original image when there was none
WorkingPath ==
    LET made == { i \in 1..Len(cmds) :
                    cmds[i].tool \in {"gdal_translate", "gdal_contrast_stretch"} }
    IN  IF made = {} THEN args.image_path ELSE cmds[SetMax(made)].output_path

Usable(stdout) ==
    /\ stdout.json
    /\ "cornerCoordinates.upperLeft" \in stdout.paths
    /\ "cornerCoordinates.lowerRight" \in stdout.paths

\* C13: when the output of the image-info query does not parse, or lacks
\* cornerCoordinates.upperLeft or cornerCoordinates.lowerRight, create_xml
\* fails with XMLError and writes no XML file: the XML files are those the
\* call found.
C13_UnusableInfoIsXMLError ==
    \A i \in 1..Len(procs) :
       (procs[i].cmd.tool = "gdalinfo" /\ ~Usable(procs[i].stdout)) =>
          /\ pc = "failed"
          /\ error = "XMLError"
          /\ result = NoResult
          /\ fs.xmls = fs0.xmls

C13_Witness ==
    /\ pc = "failed"
    /\ calls = 2
    /\ FinalXml \in DOMAIN fs.xmls
    /\ \E i \in 1..Len(procs) :
          /\ procs[i].cmd.tool = "gdalinfo"
          /\ procs[i].returncode = 0
          /\ procs[i].stdout.json
          /\ "cornerCoordinates.lowerRight" \notin procs[i].stdout.paths

\* the current call repeats a create_xml call made before: same output
\* folder, image handle, image path, base link and maximum zoom, and the
\* image-info query has answered with both corners
SecondCreateXml ==
    /\ calls >= 2
    /\ ~args.move /\ ~args.convert /\ ~args.contrast
    /\ FinalXml \in DOMAIN fs0.xmls
    /\ fs0.xmls[FinalXml].TileLevel = ZoomHi
    /\ \E i \in 1..Len(procs) :
          procs[i].cmd.tool = "gdalinfo" /\ Usable(procs[i].stdout)

\* C14: a second create_xml with the arguments of the first does not fail,
\* and leaves the file with exactly the content the first call gave it (it
\* overwrites, it does not append) and creates no other XML file.
C14_XmlIdempotent ==
    SecondCreateXml =>
       /\ pc \in {"cleanup", "return", "done"}
       /\ error = "none"
       /\ fs.xmls = fs0.xmls

C14_Witness ==
    /\ SecondCreateXml
    /\ pc = "done"
    /\ fs.xmls[FinalXml] = XmlData(args.base_link, Image(args.image_path), ZoomHi,
                                   Corners)

\* the commands make_tiles runs through Utils.subprocess
ViaUtilsSubprocess(cmd) == cmd.tool \in {"gdal_translate", "gdal_tiler.py"}

\* C15: a command given to Utils.subprocess is run exactly once; the caller
\* waits at the call while it runs; exit status zero returns normally;
\* a non-zero exit status raises an error that carries the command and the
\* exit status, and the caller never goes on after it.
C15_SubprocessOnceChecked ==
    /\ Len(procs) + Cardinality(running) = Len(cmds)
    /\ \A c \in running :
          ViaUtilsSubprocess(c) =>
             /\ c = cmds[Len(cmds)]
             /\ pc = IF c.tool = "gdal_translate" THEN "convert_run" ELSE "tiler_run"
    /\ \A i \in 1..Len(cmds) :
          ViaUtilsSubprocess(cmds[i]) =>
             \A j \in 1..Len(cmds) : cmds[j] = cmds[i] => j = i
    /\ \A i \in 1..Len(procs) :
          ViaUtilsSubprocess(cmds[i]) =>
             /\ procs[i].cmd = cmds[i]
             /\ procs[i].returncode = 0 => procs[i].raised = "none"
             /\ procs[i].returncode # 0 =>
                   /\ procs[i].raised = "CalledProcessError"
                   /\ procs[i].exc.cmd = cmds[i]
                   /\ procs[i].exc.returncode = procs[i].returncode
                   /\ i = Len(cmds)
                   /\ pc = "failed"
                   /\ error = "CalledProcessError"

C15_Witness ==
    /\ pc = "failed"
    /\ Len(procs) = 2
    /\ procs[1].cmd.tool = "gdal_translate" /\ procs[1].returncode = 0
    /\ procs[2].cmd.tool = "gdal_tiler.py" /\ procs[2].returncode = 2
    /\ procs[2].exc.returncode = 2

\* C16: an exception raised in a step reaches the caller as the outcome of
\* the call: the call is over with that error and no result, the failing
\* step is the last one begun, the failing command the last one started and
\* nothing is left running; no command is started twice in a call.
C16_FailurePropagates ==
    /\ \A i, j \in 1..Len(cmds) : cmds[i].tool = cmds[j].tool => i = j
    /\ \A i \in 1..Len(procs) :
          procs[i].raised # "none" =>
             /\ pc = "failed"
             /\ error = procs[i].raised
             /\ i = Len(cmds)
             /\ LastStep = StepOfTool(procs[i].cmd.tool)
    /\ error # "none" <=> pc = "failed"
    /\ pc = "failed" =>
          /\ result = NoResult
          /\ running = {}
          /\ IsPrefix(steps, ExpectedSteps(args))
          /\ LastStep # "DONE"
          /\ Len(procs) = Len(cmds)

C16_Witness ==
    /\ pc = "failed"
    /\ error = "CalledProcessError"
    /\ LastStep = "CONTRAST"
    /\ Len(cmds) = 2
    /\ procs[1].raised = "none"
    /\ procs[2].raised = "CalledProcessError"

\* C17 as claimed: every external command of a make_tiles call that exits
\* with a non-zero status makes the call fail, the image-info query of
\* create_xml included, whatever the command printed.
C17_NonZeroExitFails ==
    \A i \in 1..Len(procs) : procs[i].returncode # 0 => pc = "failed"

\* C18 as claimed: validate_image_bands fails with a validation error of
\* the module for a path that does not exist and for a file that cannot be
\* opened as a raster, and otherwise returns whether the band count of the
\* raster equals the length of the list.
C18_DedicatedValidationErrors ==
    args.op = "validate_image_bands" =>
       IF args.image_path \in DOMAIN fs.rasters
       THEN /\ error = "none"
            /\ result = (fs.rasters[args.image_path].bands = Len(args.filelist))
       ELSE error = "ValidationBandError"

\* name is the file name b up to, not including, its first "."
UpToFirstDot(name, b) ==
    /\ IsPrefix(name, b)
    /\ \A i \in 1..Len(name) : name[i] # "."
    /\ Len(name) < Len(b) => b[Len(name) + 1] = "."

\* C19: once constructed, and after any rename_file, an Image has an
\* absolute image_path, image_dir is the directory of image_path, image_name
\* is the file name up to its first "."; the same path with and without an
\* extension gives the same image_name.
C19_ImageAttributes ==
    pc = "image" =>
       LET image == loc.input_image IN
       /\ Dirname(image.image_path)[1] # "rel"
       /\ image.image_dir = Dirname(image.image_path)
       /\ UpToFirstDot(image.image_name, Basename(image.image_path))
       /\ Image(Join(image.image_dir, image.image_name)).image_name
             = image.image_name
       /\ Image(Join(image.image_dir, image.image_name \o <<".", "TIF">>)).image_name
             = image.image_name

C19_Witness ==
    /\ pc = "image"
    /\ calls = 3
    /\ args.op = "rename_file"
    /\ error = "none"
    /\ args.image_path # loc.input_image.image_path
    /\ Basename(loc.input_image.image_path) # loc.input_image.image_name

\* a rename_file call that returns normally
RenameReturns ==
    /\ calls' = calls + 1
    /\ args'.op = "rename_file"
    /\ error' = "none"

\* C20 as claimed: after rename_file(X), image_name is X, image_path is
\* image_dir/X with image_dir unchanged, the old path no longer exists and
\* the new path exists.
C20_RenameRoundTrip ==
    [][ RenameReturns =>
          /\ loc'.input_image.image_name = args'.new_filename
          /\ loc'.input_image.image_path
                = Join(loc.input_image.image_dir, args'.new_filename)
          /\ loc'.input_image.image_dir = loc.input_image.image_dir
          /\ ~PathExists(fs', loc.input_image.image_path)
          /\ PathExists(fs', loc'.input_image.image_path) ]_vars

\* C20: after rename_file(X) with a file name X, image_name is X up to its
\* first "." (X itself when X has none), image_path is image_dir/X with
\* image_dir unchanged, the new path exists, and the old path no longer
\* exists unless X is the name the file already had.
C20_RenameUpToFirstDot ==
    [][ RenameReturns =>
          /\ UpToFirstDot(loc'.input_image.image_name, args'.new_filename)
          /\ loc'.input_image.image_path
                = Join(loc.input_image.image_dir, args'.new_filename)
          /\ loc'.input_image.image_dir = loc.input_image.image_dir
          /\ PathExists(fs', loc'.input_image.image_path)
          /\ args'.new_filename # Basename(loc.input_image.image_path)
                => ~PathExists(fs', loc.input_image.image_path) ]_vars

C20_Witness ==
    /\ pc = "image"
    /\ args.op = "rename_file"
    /\ error = "none"
    /\ args.new_filename = <<"my_image", ".", "TIF">>
    /\ loc.input_image.image_name = <<"my_image">>
    /\ PathExists(fs0, args.image_path)
    /\ ~PathExists(fs, args.image_path)
    /\ PathExists(fs, loc.input_image.image_path)

\* the zoom levels and the final paths of caller c
ParLevels(c) == SetMin(SeqRange(args[c].zoom))..SetMax(SeqRange(args[c].zoom))
ParFinalTms(c) ==
    Join(args[c].output_folder,
         SplitDot0(Basename(args[c].image_path)) \o <<".", "tms">>)
ParFinalXml(c) ==
    Join(args[c].output_folder,
         SplitDot0(Basename(args[c].image_path)) \o <<".", "xml">>)
SameFolder == args[1].output_folder = args[2].output_folder

ParPyramidMissing ==
    \E c \in Callers : pc[c] = "done" /\ SameFolder /\ result[c][1] \notin DOMAIN fs.trees
ParMoveCollision ==
    \E c \in Callers : pc[c] = "failed" /\ SameFolder /\ error[c] = "TMSError"

\* C22 as claimed: the TMSError of a band-count mismatch and the TMSError
\* of a move failure each carry a code, readable on the raised exception,
\* that differs between the two cases (1 for the bands, 2 for the move).
C22_TMSErrorCarriesCode ==
    (pc = "failed" /\ error = "TMSError") =>
       /\ "code" \in DOMAIN exception
       /\ exception.code = IF LastStep = "MOVE" THEN 2 ELSE 1

\* an entry of the file list of the current create_composition call is no
\* existing file
SomeEntryMissing ==
    \E i \in 1..Len(args.ordered_filelist) : ~IsFile(fs0, args.ordered_filelist[i])

\* C23 as claimed: when an entry of ordered_filelist is not an existing
\* file, create_composition raises ValidationBandError, having run no
\* command and created no file.
C23_ValidationBandErrorFirst ==
    (pc = "failed" /\ SomeEntryMissing) =>
       /\ error = "ValidationBandError"
       /\ cmds = <<>>
       /\ fs = fs0

\* the record create_composition returns for its arguments
CompositionRecord ==
    [ name |-> Basename(GetImageOutputPath(args.filename, args.output_path, TypeName)),
      path |-> GetImageOutputPath(args.filename, args.output_path, TypeName),
      type |-> TypeName ]

\* C24 as claimed: with scale off, a create_composition whose merge command
\* succeeds runs that command only, leaves the merged file at the output
\* path and returns the record {name, path, type} a call with scale on
\* returns.
C24_UnscaledReturnsRecord ==
    ( /\ ~args.scale
      /\ pc \in {"done", "failed"}
      /\ Len(procs) = 1
      /\ procs[1].returncode = 0
      /\ SumBands(fs0, args.ordered_filelist) = Len(args.ordered_filelist) ) =>
       /\ pc = "done"
       /\ Len(cmds) = 1
       /\ cmds[1].tool = "gdal_merge.py"
       /\ CompositionRecord.path \in DOMAIN fs.rasters
       /\ fs.rasters[CompositionRecord.path].origin = "merged"
       /\ result = CompositionRecord

\* C25: the file a successful CONTRAST step wrote is never removed by the
\* call: it exists at every later point of the call, through BUILD_PYRAMID
\* and BUILD_XML, and when the call has returned or failed.
C25_ContrastFileKept ==
    \A i \in 1..Len(procs) :
       (procs[i].cmd.tool = "gdal_contrast_stretch" /\ procs[i].returncode = 0) =>
          /\ procs[i].cmd.output_path \in DOMAIN fs.rasters
          /\ fs.rasters[procs[i].cmd.output_path].origin = "contrast"
          /\ pc \in {"alloc", "pyramid", "tiler_run", "xml", "info_run",
                     "cleanup", "move", "return", "done", "failed"}

C25_Witness ==
    /\ pc = "done"
    /\ args.convert /\ args.contrast /\ args.move
    /\ calls = 2
    /\ \E i \in 1..Len(procs) :
          /\ procs[i].cmd.tool = "gdal_contrast_stretch"
          /\ procs[i].cmd.output_path \in DOMAIN fs.rasters
    /\ loc.converted_image.image_path \notin DOMAIN fs.rasters

\* the last operation was move_path_files and it raised nothing
MovedQuietly == args.op = "move_path_files" /\ error = "none"

MovedOntoExisting ==
    /\ args.op = "move_path_files"
    /\ IsDirPath(fs0, args.src)
    /\ IsDirPath(fs0, Join(args.dest, Basename(args.src)))

\* C29: move_path_files on a directory source whose name already exists in
\* dest removes the destination subtree before it moves the source: after a
\* quiet call the destination holds the source's tree alone, and after a
\* failed shutil.move it holds neither the old nor the new tree while the
\* source is still at its path
C29_ExistingTreeDeletedBeforeMove ==
    MovedOntoExisting =>
        LET target == Join(args.dest, Basename(args.src)) IN
        /\ error = "none" =>
              fs.trees = Put(Drop(Drop(fs0.trees, args.src), target),
                             target, fs0.trees[args.src])
        /\ args.fail = "move" =>
              /\ error # "none"
              /\ fs.trees = Drop(fs0.trees, target)
              /\ IsDirPath(fs, args.src)

C29_Witness ==
    /\ MovedOntoExisting
    /\ args.fail = "move"
    /\ error = "OSError"
    /\ ~PathExists(fs, Join(args.dest, Basename(args.src)))
    /\ fs0.trees[Join(args.dest, Basename(args.src))] # fs0.trees[args.src]

\* where the tiler's tree is expected in the staging directory, and whether
\* the staging directory lacked it when the move block was entered
StagedTms == Join(loc.tms, loc.converted_image.image_name \o <<".", "tms">>)
StagingLackedTree == pc # "move" /\ ~PathExists(fs0, StagedTms)

C30_StaleTreeReturned ==
    /\ StagingLackedTree
    /\ pc = "done"
    /\ IsDirPath(fs, result[1])
    /\ fs.trees[result[1]] = fs0.trees[result[1]]

\* make_tiles is between the start of BUILD_PYRAMID and the end of BUILD_XML
ReadingSteps == pc \in {"pyramid", "tiler_run", "xml", "info_run"}

\* position of a step in the recorded sequence, 0 when it was not reached
StepIndex(name) ==
    LET at == { i \in 1..Len(steps) : steps[i] = name }
    IN  IF at = {} THEN 0 ELSE SetMin(at)

\* C27: from BUILD_PYRAMID to the end of BUILD_XML the working image exists,
\* it is the file the tiler and gdalinfo are given, and with convert=True the
\* converted file exists as well; CLEANUP_CONVERTED only ever follows
\* BUILD_XML
C27_WorkingImageExists ==
    /\ ReadingSteps =>
          /\ loc.contrasted_image.image_path \in DOMAIN fs.rasters
          /\ args.convert => loc.converted_image.image_path \in DOMAIN fs.rasters
          /\ pc \in {"tiler_run", "info_run"} =>
                cmds[Len(cmds)].input = loc.contrasted_image.image_path
    /\ StepIndex("CLEANUP_CONVERTED") > 0 =>
          /\ StepIndex("BUILD_XML") > 0
          /\ StepIndex("BUILD_XML") < StepIndex("CLEANUP_CONVERTED")

C27_Witness ==
    /\ pc = "info_run"
    /\ args.convert /\ args.contrast /\ args.move
    /\ loc.input_image.image_path # loc.converted_image.image_path
    /\ loc.converted_image.image_path # loc.contrasted_image.image_path
    /\ { loc.input_image.image_path, loc.converted_image.image_path,
         loc.contrasted_image.image_path } \subseteq DOMAIN fs.rasters
    /\ cmds[Len(cmds)].input = loc.contrasted_image.image_path

FailedInPyramidOrXml ==
    pc = "failed" /\ LastStep \in {"BUILD_PYRAMID", "BUILD_XML"}

\* C28: when make_tiles has failed in BUILD_PYRAMID or BUILD_XML no cleanup
\* has run: with convert=True the byte-scaled file still exists, with
\* move=True the staging directory still exists and, once the tiler has
\* succeeded, holds the pyramid it built
C28_NoCleanupOnFailure ==
    FailedInPyramidOrXml =>
        /\ StepIndex("CLEANUP_CONVERTED") = 0
        /\ args.convert =>
              /\ loc.converted_image.image_path \in DOMAIN fs.rasters
              /\ fs.rasters[loc.converted_image.image_path].origin = "converted"
        /\ args.move =>
              /\ loc.output_folder_name \in fs.dirs
              /\ loc.output_folder_name # args.output_folder
              /\ LastStep = "BUILD_XML" =>
                    /\ StagedTms \in DOMAIN fs.trees
                    /\ SetMin(SeqRange(args.zoom))..SetMax(SeqRange(args.zoom))
                          \subseteq fs.trees[StagedTms]

C28_Witness ==
    /\ FailedInPyramidOrXml
    /\ LastStep = "BUILD_XML"
    /\ args.convert /\ args.move
    /\ loc.converted_image.image_path \in DOMAIN fs.rasters
    /\ loc.converted_image.image_path # loc.input_image.image_path
    /\ loc.output_folder_name \in fs.dirs
    /\ StagedTms \in DOMAIN fs.trees

====
